---- MODULE Spec2Model ----
(***************************************************************************)
(* State-machine model of the avatar pose engine                           *)
(* (src/src/lib/avatar/animation/PoseController.ts and the easing library  *)
(* that follows it in the same file).                                      *)
(*                                                                         *)
(* Numbers.  The code computes in IEEE doubles; the model computes in      *)
(* fixed point with symmetric (truncating) rounding:                       *)
(*   degrees, radians, scene units and pure factors (progress, easing,    *)
(*   sin, intensity, speed) in units of 1/Scale                            *)
(*   time in milliseconds (seconds in the code)                            *)
(* The one non-number a double can hold that the code can produce, NaN     *)
(* (0/0), is the value NaN below and is propagated as JavaScript does.     *)
(***************************************************************************)
EXTENDS Integers, Sequences, FiniteSets, TLC

\* ------------------------------------------------------------------------
\* Bounds of the model
\* ------------------------------------------------------------------------
\* calls of the controller's API (update() included) in one behaviour
MaxSteps == 5

\* ------------------------------------------------------------------------
\* Fixed-point arithmetic
\* ------------------------------------------------------------------------
Scale == 10 * 1000
NaN == -(2000 * 1000 * 1000)

Abs(a) == IF a < 0 THEN -a ELSE a

\* the element of a one-element set; the arithmetic below binds each operand
\* to a variable ranging over {operand}, so that an operand is evaluated once
\* however often the formula mentions it
The(S) == CHOOSE x \in S : TRUE

\* a / b rounded toward zero, as a symmetric stand-in for the double division
Quot(a, b) ==
  The({IF (x >= 0) = (y > 0) THEN Abs(x) \div Abs(y) ELSE -(Abs(x) \div Abs(y)) :
         x \in {a}, y \in {b}})

\* a * b / c rounded toward zero, computed without leaving 32 bits
MulDiv(a, b, c) ==
  The({The({qa * qb * c + qa * (y - qb * c) + (x - qa * c) * qb
              + Quot((x - qa * c) * (y - qb * c), c) :
              qa \in {Quot(x, c)}, qb \in {Quot(y, c)}}) :
         x \in {a}, y \in {b}})

Min(a, b) == IF a < b THEN a ELSE b

\* A faulty maximum that takes the smaller of the two
MaxTakesSmaller(a, b) == IF a < b THEN a ELSE b

Max(a, b) == IF a > b THEN a ELSE b

\* Math.PI
PI == 31416

\* Math.sin: range reduction to [0, PI/2] and the Taylor polynomial up to x^9
SinQ(x) ==
  The({The({The({The({
         Min(Scale, Quot(5040 * x - 840 * x3 + 42 * x5 - x7
                           + Quot(MulDiv(x7, x2, Scale), 72), 5040)) :
         x7 \in {MulDiv(x5, x2, Scale)}}) :
         x5 \in {MulDiv(x3, x2, Scale)}}) :
         x3 \in {MulDiv(x2, x, Scale)}}) :
         x2 \in {MulDiv(x, x, Scale)}})

SinH(m) ==
  The({The({IF m >= PI THEN -SinQ(q) ELSE SinQ(q) :
              q \in {IF 2 * h > PI THEN PI - h ELSE h}}) :
         h \in {IF m >= PI THEN m - PI ELSE m}})

Sin(a) == The({SinH(m) : m \in {a % (2 * PI)}})

\* Math.cos
Cos(a) == Sin(a + PI \div 2)

\* ------------------------------------------------------------------------
\* poses.ts : degToRad, and the inverse the controller writes inline
\* ------------------------------------------------------------------------
\* degrees * (Math.PI / 180)
degToRad(d) == IF d = NaN THEN NaN ELSE Quot(MulDiv(d, 17453, Scale), 100)

\* radians / (Math.PI / 180)
radToDeg(r) == IF r = NaN THEN NaN ELSE MulDiv(100 * r, Scale, 17453)

Vec3(x, y, z) == <<x, y, z>>
Zero3 == Vec3(0, 0, 0)
degToRad3(v) == Vec3(degToRad(v[1]), degToRad(v[2]), degToRad(v[3]))
radToDeg3(v) == Vec3(radToDeg(v[1]), radToDeg(v[2]), radToDeg(v[3]))

\* ------------------------------------------------------------------------
\* Easing library
\* ------------------------------------------------------------------------
easeInSine(t) == Scale - Cos(MulDiv(t, PI, Scale) \div 2)

easeOutSine(t) == Sin(MulDiv(t, PI, Scale) \div 2)

easeInOutSine(t) == Quot(-(Cos(MulDiv(PI, t, Scale)) - Scale), 2)

Cube(t) == MulDiv(MulDiv(t, t, Scale), t, Scale)

easeInOutCubic(t) ==
  IF t = NaN THEN NaN
  ELSE IF 2 * t < Scale THEN 4 * Cube(t)
  ELSE Scale - Quot(Cube(2 * Scale - 2 * t), 2)

\* from + (to - from) * t, the interpolation both target writers use
Lerp(from, to, t) ==
  IF from = NaN \/ to = NaN \/ t = NaN THEN NaN
  ELSE from + MulDiv(to - from, t, Scale)

Lerp3(from, to, t) ==
  Vec3(Lerp(from[1], to[1], t), Lerp(from[2], to[2], t), Lerp(from[3], to[3], t))

\* A faulty smoothDamp that lacks the overshoot test
smoothDampNoClamp(current, target, velocity, smoothTime0, deltaTime) ==
  LET omega == Quot(2 * Scale * Scale, Max(1, smoothTime0))
      x == MulDiv(omega, deltaTime, 1000)
      x2 == MulDiv(x, x, Scale)
      x3 == MulDiv(x2, x, Scale)
      exp == MulDiv(Scale, Scale,
                    Scale + x + MulDiv(x2, 48, 100) + MulDiv(x3, 235, 1000))
      nan == current = NaN \/ target = NaN \/ velocity = NaN
      change == current - target
      temp == MulDiv(velocity + MulDiv(change, omega, Scale), deltaTime, 1000)
  IN  [value |-> IF nan THEN NaN ELSE target + MulDiv(change + temp, exp, Scale),
       velocity |-> IF nan THEN NaN
                    ELSE MulDiv(velocity - MulDiv(temp, omega, Scale), exp, Scale)]

\* smoothDamp(current, target, velocityRef, smoothTime, deltaTime), maxSpeed
\* left at its default Infinity (no call site passes it).  smoothTime is in
\* 0.1 ms, deltaTime in ms, velocity in 0.0001 rad/s.  Returns the output and
\* the velocity stored through velocityRef.
smoothDamp(current, target, velocity, smoothTime0, deltaTime) ==
  LET smoothTime == Max(1, smoothTime0)
      omega == Quot(2 * Scale * Scale, smoothTime)
      x == MulDiv(omega, deltaTime, 1000)
      x2 == MulDiv(x, x, Scale)
      x3 == MulDiv(x2, x, Scale)
      exp == MulDiv(Scale, Scale,
                    Scale + x + MulDiv(x2, 48, 100) + MulDiv(x3, 235, 1000))
      nan == current = NaN \/ target = NaN \/ velocity = NaN
      change == current - target
      originalTo == target
      \* maxChange is Infinity: the clamp of change leaves it as it is
      target1 == current - change
      temp == MulDiv(velocity + MulDiv(change, omega, Scale), deltaTime, 1000)
      velocity1 == IF nan THEN NaN
                   ELSE MulDiv(velocity - MulDiv(temp, omega, Scale), exp, Scale)
      output1 == IF nan THEN NaN
                 ELSE target1 + MulDiv(change + temp, exp, Scale)
      \* comparisons with NaN are false
      towards == IF originalTo = NaN \/ current = NaN THEN FALSE
                 ELSE originalTo - current > 0
      beyond == IF output1 = NaN \/ originalTo = NaN THEN FALSE
                ELSE output1 > originalTo
  IN  IF towards = beyond
      THEN [value |-> originalTo,
            \* (output - originalTo) / deltaTime: 0 / 0 is NaN
            velocity |-> IF originalTo = NaN \/ deltaTime = 0 THEN NaN ELSE 0]
      ELSE [value |-> output1, velocity |-> velocity1]

\* ------------------------------------------------------------------------
\* Configuration data (poses.ts) and the rig
\* ------------------------------------------------------------------------
\* a rotation of the configuration tables, given there in whole degrees
Deg3(x, y, z) == Vec3(Scale * x, Scale * y, Scale * z)

BONE_MAP ==
  {"spine", "chest", "neck", "head",
   "leftUpperArm", "leftLowerArm", "leftHand",
   "rightUpperArm", "rightLowerArm", "rightHand",
   "leftUpperLeg", "leftLowerLeg", "leftFoot",
   "rightUpperLeg", "rightLowerLeg", "rightFoot", "hips"}

\* The bones for which the rig's getNormalizedBoneNode returns a node: a
\* model that binds six of the seventeen names and lacks the others.
RigBones ==
  {"spine", "head", "rightUpperArm", "rightLowerArm", "leftUpperLeg", "rightUpperLeg"}

\* The finger joints for which the rig's getNormalizedBoneNode returns a
\* node: a model that lacks several joints of each hand.
RigFingerJoints ==
  {"leftThumbMetacarpal", "leftThumbProximal",
   "leftIndexProximal", "leftIndexIntermediate", "leftLittleProximal",
   "rightThumbMetacarpal", "rightThumbDistal",
   "rightIndexProximal", "rightIndexDistal", "rightMiddleIntermediate"}

DEFAULT_RELAXED_POSE ==
  [b \in {"leftUpperArm", "rightUpperArm", "leftLowerArm", "rightLowerArm",
          "spine", "chest", "neck", "head"} |->
     CASE b = "leftUpperArm" -> Deg3(20, 0, -70)
       [] b = "rightUpperArm" -> Deg3(20, 0, 70)
       [] b = "leftLowerArm" -> Deg3(0, 0, -15)
       [] b = "rightLowerArm" -> Deg3(0, 0, 15)
       [] b = "spine" -> Deg3(2, 0, 0)
       [] OTHER -> Zero3]

\* POSE_PRESETS "tpose" and "thinking"
PoseTpose ==
  [id |-> "tpose",
   bones |-> [b \in {"leftUpperArm", "rightUpperArm", "leftLowerArm", "rightLowerArm"} |->
                CASE b = "leftUpperArm" -> Deg3(0, 0, -90)
                  [] b = "rightUpperArm" -> Deg3(0, 0, 90)
                  [] OTHER -> Zero3]]

PoseThinking ==
  [id |-> "thinking",
   bones |-> [b \in {"head", "leftUpperArm", "rightUpperArm", "leftLowerArm", "rightLowerArm"} |->
                CASE b = "head" -> Deg3(5, -10, 0)
                  [] b = "leftUpperArm" -> Deg3(15, 0, -25)
                  [] b = "rightUpperArm" -> Deg3(60, -30, 70)
                  [] b = "leftLowerArm" -> Deg3(-5, 0, -15)
                  [] b = "rightLowerArm" -> Deg3(0, -20, 120)]]

Poses == {PoseTpose, PoseThinking}

\* A keyframe: time in 1/Scale, bones a partial map
Keyframe(time, bones) == [time |-> time, bones |-> bones]
HeadOnly(v) == [b \in {"head"} |-> v]

\* BODY_GESTURES "nod"
GestureNod ==
  [id |-> "nod", duration |-> 600, loop |-> FALSE,
   keyframes |-> <<Keyframe(0, HeadOnly(Deg3(0, 0, 0))),
                   Keyframe(3000, HeadOnly(Deg3(15, 0, 0))),
                   Keyframe(6000, HeadOnly(Deg3(-5, 0, 0))),
                   Keyframe(Scale, HeadOnly(Deg3(0, 0, 0)))>>]

ClapBones(ly, lz) ==
  [b \in {"leftUpperArm", "rightUpperArm", "leftLowerArm", "rightLowerArm"} |->
     CASE b = "leftUpperArm" -> Deg3(30, 40, -50)
       [] b = "rightUpperArm" -> Deg3(30, -40, 50)
       [] b = "leftLowerArm" -> Deg3(0, ly, -lz)
       [] b = "rightLowerArm" -> Deg3(0, -ly, lz)]

\* BODY_GESTURES "clap", the looping gesture of the table
GestureClap ==
  [id |-> "clap", duration |-> 600, loop |-> TRUE,
   keyframes |-> <<Keyframe(0, ClapBones(20, 70)),
                   Keyframe(5000, ClapBones(40, 90)),
                   Keyframe(Scale, ClapBones(20, 70))>>]

\* A gesture value with a zero-length keyframe list (the type allows it)
GestureEmpty ==
  [id |-> "empty", duration |-> 600, loop |-> FALSE, keyframes |-> <<>>]

Gestures == {GestureNod, GestureClap, GestureEmpty}

\* A BodyMotion: hasParams tells whether params is present; amplitude,
\* strideLength and armSwing are 0 when absent (the code reads them with
\* `|| default`, which treats 0 and undefined alike).
Motion(id, type, speed, intensity, hasParams, amplitude, strideLength, armSwing) ==
  [id |-> id, type |-> type, speed |-> speed, intensity |-> intensity,
   hasParams |-> hasParams, amplitude |-> amplitude,
   strideLength |-> strideLength, armSwing |-> armSwing]

\* BODY_MOTIONS entries
MotionNone == Motion("none", "custom", 0, 0, FALSE, 0, 0, 0)
MotionBreathingNormal ==
  Motion("breathingNormal", "breathing", Scale, 6000, TRUE, 2 * Scale, 0, 0)
MotionSwayRhythmic ==
  Motion("swayRhythmic", "sway", 8000, 7000, TRUE, 4 * Scale, 0, 0)
MotionBounceSubtle ==
  Motion("bounceSubtle", "bounce", 15000, 3000, TRUE, 100, 0, 0)
MotionFloatDreamy ==
  Motion("floatDreamy", "float", 3000, 5000, TRUE, 300, 0, 0)
MotionIdleNatural ==
  Motion("idleNatural", "custom", Scale, 5000, TRUE, 2 * Scale, 0, 0)
MotionWalkNormal ==
  Motion("walkNormal", "walk", Scale, 7000, TRUE, 3 * Scale, 25 * Scale, 30 * Scale)

MotionWalkSlow ==
  Motion("walkSlow", "walk", 6000, 5000, TRUE, 2 * Scale, 15 * Scale, 20 * Scale)
MotionWalkBrisk ==
  Motion("walkBrisk", "walk", 15000, Scale, TRUE, 4 * Scale, 35 * Scale, 45 * Scale)
MotionMarchInPlace ==
  Motion("marchInPlace", "walk", 12000, Scale, TRUE, 5 * Scale, 50 * Scale, 60 * Scale)

\* BodyMotion values of type walk that are no presets: one without params
\* (params || {} leaves every default in force) and one with a negative
\* stride length (the type allows any number)
MotionWalkBare == Motion("walkBare", "walk", Scale, Scale, FALSE, 0, 0, 0)
MotionWalkBackward ==
  Motion("walkBackward", "walk", Scale, 7000, TRUE, 3 * Scale, -(30 * Scale), 30 * Scale)

\* A BodyMotion value with a negative intensity (the type allows any number)
MotionSwayNegative ==
  Motion("swayNegative", "sway", 8000, -7000, TRUE, 4 * Scale, 0, 0)

Motions ==
  {MotionNone, MotionSwayRhythmic, MotionBounceSubtle, MotionIdleNatural,
   MotionWalkNormal, MotionSwayNegative}

\* update(delta): the frame times the render loop passes, in ms
Deltas == {0, 200, 700}

\* setTransitionDuration(duration): in ms
Durations == {-400, 0, 200}

\* ------------------------------------------------------------------------
\* State of a PoseController and of the rig it drives
\* ------------------------------------------------------------------------
VARIABLES
  vrm,                 \* <<>> (null) or <<"avatar">>
  rigRot,              \* rotation of each bone node of the rig
  basePose,            \* bone name -> degrees (a partial map)
  boneStates,          \* bone name -> [current, target, velocity]
  poseTransition,      \* <<>> (null) or <<transition>>
  currentMotion,       \* <<>> (null) or <<motion>>
  gestureAnimation,    \* <<>> (null) or <<[gesture, startTime, isPlaying]>>
  motionTime,
  elapsedTime,
  currentPositionY,
  positionVelocityY,
  transitionDuration,
  last,                \* what the last call did (observation only)
  steps                \* calls so far (bounds the model)

\* A call of one of the pure functions of the library, on its own
VARIABLES
  input,               \* <<>> or the arguments of the call
  output               \* <<>> or what the call returned

pureVars == <<input, output>>

\* State of an AnimationController and of the layer objects it holds
VARIABLES
  ac,                  \* [vrm, elapsed, lastAmplitude, isPlaying]
  layers,              \* this.layers: the layer objects, by identity
  layerObjects,        \* identity -> [enabled, vrm] of each layer object
  acLast,              \* what the last call did (observation only)
  acSteps              \* calls so far (bounds the model)

layerVars == <<ac, layers, layerObjects, acLast, acSteps>>

\* State of a SpeechMouthLayer
VARIABLES
  mouth,               \* [vrm, enabled, currentValue, velocity, peakValue,
                       \*  peakDecay, config]
  mouthLast,           \* what the last call did (observation only)
  mouthSteps           \* calls so far (bounds the model)

mouthVars == <<mouth, mouthLast, mouthSteps>>

\* State of an IdleBodyLayer and of the blink expression of its rig
VARIABLES
  idle,                \* [vrm, enabled, elapsed, nextBlinkTime, blinkProgress,
                       \*  isBlinking], times in ms, progress in 1/Scale
  blinkChannel,        \* the weight last written to the blink expression
  idleLast,            \* what the last call did (observation only)
  idleSteps            \* calls so far (bounds the model)

idleVars == <<idle, blinkChannel, idleLast, idleSteps>>

poseVars ==
  <<vrm, rigRot, basePose, boneStates, poseTransition, currentMotion,
    gestureAnimation, motionTime, elapsedTime, currentPositionY,
    positionVelocityY, transitionDuration, last, steps>>

vars == <<poseVars, pureVars, layerVars, mouthVars, idleVars>>

\* smoothTime of the controller, 0.15 s, in 0.1 ms
smoothTime == 1500

\* basePosition[1]; setBasePosition is never called in the model
basePositionY == 0

NoWrites == [b \in {} |-> Zero3]

\* The observation a call leaves behind: whether a transition and a gesture
\* were set when it began and, for update(), the progress the pose transition
\* passed to its easing (<<>> when none was evaluated), the targets each of
\* the three writers wrote, whether a finished gesture was cleared and
\* whether an exception left the call.
Obs(op, arg) ==
  [op |-> op, arg |-> arg,
   hadTransition |-> poseTransition # <<>>,
   hadGesture |-> gestureAnimation # <<>>,
   progress |-> <<>>, trWrites |-> NoWrites, gsWrites |-> NoWrites,
   moWrites |-> NoWrites, gestureEnded |-> FALSE, threw |-> FALSE]

\* A faulty merge that keeps only the preset's bones
MergeReplace(a, b) == b

\* { ...a, ...b }
Merge(a, b) ==
  [k \in DOMAIN a \cup DOMAIN b |-> IF k \in DOMAIN b THEN b[k] ELSE a[k]]

\* m[k] || [0, 0, 0]
OrZero(m, k) == IF k \in DOMAIN m THEN m[k] ELSE Zero3

\* A faulty guard that takes the rig for present at all times
hasHumanoidAlways == TRUE

\* this.vrm?.humanoid
hasHumanoid == vrm # <<>>

\* A faulty initialisation that makes a state for every BONE_MAP name
initializeBoneStatesAll(rot) ==
  [b \in BONE_MAP |->
     [current |-> OrZero(rot, b), target |-> OrZero(rot, b), velocity |-> Zero3]]

\* initializeBoneStates: a state for every BONE_MAP name the rig has a node for
initializeBoneStates(rot) ==
  [b \in BONE_MAP \cap RigBones |->
     [current |-> rot[b], target |-> rot[b], velocity |-> Zero3]]

\* A faulty applyPoseImmediate that rotates the rig and forgets the bone states
applyPoseImmediateStatesForgotten(bs, pose) == bs

\* applyPoseImmediate: the bone states it leaves
applyPoseImmediateStates(bs, pose) ==
  [b \in DOMAIN bs |->
     IF b \in DOMAIN pose /\ b \in BONE_MAP /\ b \in RigBones
     THEN [current |-> degToRad3(pose[b]), target |-> degToRad3(pose[b]),
           velocity |-> Zero3]
     ELSE bs[b]]

\* applyPoseImmediate: the rig rotations it leaves
applyPoseImmediateRig(rot, pose) ==
  [b \in DOMAIN rot |->
     IF b \in DOMAIN pose /\ b \in BONE_MAP THEN degToRad3(pose[b]) ELSE rot[b]]

\* new PoseController(): the field initialisers
newPoseController ==
  /\ vrm = <<>>
  /\ rigRot = [b \in RigBones \cup RigFingerJoints |-> Zero3]
  /\ basePose = DEFAULT_RELAXED_POSE
  /\ boneStates = NoWrites
  /\ poseTransition = <<>>
  /\ currentMotion = <<>>
  /\ gestureAnimation = <<>>
  /\ motionTime = 0
  /\ elapsedTime = 0
  /\ currentPositionY = 0
  /\ positionVelocityY = 0
  /\ transitionDuration = 400
  /\ last = Obs("new", "")
  /\ steps = 0

\* The layer classes: name and priority of the three layers init() creates
\* and of two layers a caller brings: a blush layer between idle and mouth,
\* and a second lip-sync layer that carries the name of the built-in one
LayerClass ==
  [idle |-> [name |-> "idle-body", priority |-> 50],
   mouth |-> [name |-> "speech-mouth", priority |-> 100],
   gesture |-> [name |-> "gesture", priority |-> 150],
   blush |-> [name |-> "blush", priority |-> 75],
   lipsync |-> [name |-> "speech-mouth", priority |-> 20]]

DefaultLayers == <<"idle", "mouth", "gesture">>
CustomLayers == {"blush", "lipsync"}
LayerNames == {"idle-body", "speech-mouth", "gesture", "blush"}

\* new AnimationController(), and the layer objects as their constructors
\* leave them (the caller's lip-sync layer starts disabled)
newAnimationController ==
  /\ ac = [vrm |-> <<>>, elapsed |-> 0, lastAmplitude |-> 0, isPlaying |-> FALSE]
  /\ layers = <<>>
  /\ layerObjects = [l \in DOMAIN LayerClass |->
                       [enabled |-> l # "lipsync", vrm |-> <<>>]]
  /\ acLast = [op |-> "new", ticked |-> <<>>]
  /\ acSteps = 0

\* new SpeechMouthLayer(config): config ?? the defaults.  smoothing is in
\* 0.1 ms, the others in 1e-4
MouthConfig(smoothing, threshold, maxOpen, sensitivity) ==
  [smoothing |-> smoothing, threshold |-> threshold, maxOpen |-> maxOpen,
   sensitivity |-> sensitivity]

MouthConfigDefault == MouthConfig(1500, 200, Scale, 2 * Scale)

newSpeechMouthLayer(config) ==
  /\ mouth = [vrm |-> <<>>, enabled |-> TRUE, currentValue |-> 0, velocity |-> 0,
              peakValue |-> 0, peakDecay |-> 0, config |-> config]
  /\ mouthLast = [op |-> "new", targetValue |-> 0, written |-> <<>>]
  /\ mouthSteps = 0

\* what a call of the idle layer did: the tick's delta, whether the tick
\* started and ended a blink, the weights it wrote in order, and the deltas
\* of the ticks of the blink in progress
IdleObs(op, delta, started, ended, written, blinkDeltas) ==
  [op |-> op, delta |-> delta, started |-> started, ended |-> ended,
   written |-> written, blinkDeltas |-> blinkDeltas]

\* new IdleBodyLayer(): the field initialisers
newIdleBodyLayer ==
  /\ idle = [vrm |-> <<>>, enabled |-> TRUE, elapsed |-> 0, nextBlinkTime |-> 0,
             blinkProgress |-> 0, isBlinking |-> FALSE]
  /\ blinkChannel = 0
  /\ idleLast = IdleObs("new", 0, FALSE, FALSE, <<>>, 0)
  /\ idleSteps = 0

Init ==
  /\ newPoseController
  /\ input = <<>>
  /\ output = <<>>
  /\ newAnimationController
  /\ newSpeechMouthLayer(MouthConfigDefault)
  /\ newIdleBodyLayer

Call ==
  /\ steps < MaxSteps
  /\ steps' = steps + 1
  /\ UNCHANGED <<pureVars, layerVars, mouthVars, idleVars>>

\* init(vrm)
init ==
  /\ Call
  /\ vrm' = <<"avatar">>
  /\ motionTime' = 0
  /\ elapsedTime' = 0
  /\ poseTransition' = <<>>
  /\ currentPositionY' = 0
  /\ positionVelocityY' = 0
  /\ boneStates' = applyPoseImmediateStates(initializeBoneStates(rigRot),
                                            DEFAULT_RELAXED_POSE)
  /\ rigRot' = applyPoseImmediateRig(rigRot, DEFAULT_RELAXED_POSE)
  /\ basePose' = DEFAULT_RELAXED_POSE
  /\ last' = Obs("init", "")
  /\ UNCHANGED <<currentMotion, gestureAnimation, transitionDuration>>

\* dispose()
dispose ==
  /\ Call
  /\ vrm' = <<>>
  /\ basePose' = DEFAULT_RELAXED_POSE
  /\ currentMotion' = <<>>
  /\ gestureAnimation' = <<>>
  /\ boneStates' = NoWrites
  /\ poseTransition' = <<>>
  /\ last' = Obs("dispose", "")
  /\ UNCHANGED <<rigRot, motionTime, elapsedTime, currentPositionY,
                 positionVelocityY, transitionDuration>>

\* setTransitionDuration(duration)
setTransitionDuration(duration) ==
  /\ Call
  /\ transitionDuration' = duration
  /\ last' = Obs("setTransitionDuration", "")
  /\ UNCHANGED <<vrm, rigRot, basePose, boneStates, poseTransition,
                 currentMotion, gestureAnimation, motionTime, elapsedTime,
                 currentPositionY, positionVelocityY>>

\* A faulty starting point: the base pose, whatever the bones have reached
fromPoseOfBase(base, bs, pose) ==
  [b \in DOMAIN Merge(base, pose.bones) |-> OrZero(base, b)]

\* applyPose: the starting point of the transition
fromPoseOf(base, bs, pose) ==
  [b \in DOMAIN Merge(base, pose.bones) |->
     IF b \in DOMAIN bs THEN radToDeg3(bs[b].current) ELSE OrZero(base, b)]

\* applyPose: the transition it sets up
newTransition(base, bs, pose, now, duration) ==
  [fromPose |-> fromPoseOf(base, bs, pose),
   toPose |-> Merge(base, pose.bones),
   startTime |-> now,
   duration |-> duration]

\* applyPose(pose)
applyPose(pose) ==
  /\ Call
  /\ last' = Obs("applyPose", pose.id)
  /\ IF hasHumanoid
     THEN /\ poseTransition' =
               <<newTransition(basePose, boneStates, pose, elapsedTime,
                               transitionDuration)>>
          /\ basePose' = Merge(basePose, pose.bones)
     ELSE UNCHANGED <<poseTransition, basePose>>
  /\ UNCHANGED <<vrm, rigRot, boneStates, currentMotion, gestureAnimation,
                 motionTime, elapsedTime, currentPositionY, positionVelocityY,
                 transitionDuration>>

\* playBodyGesture(gesture)
playBodyGesture(gesture) ==
  /\ Call
  /\ gestureAnimation' =
       <<[gesture |-> gesture, startTime |-> elapsedTime, isPlaying |-> TRUE]>>
  /\ last' = Obs("playBodyGesture", gesture.id)
  /\ UNCHANGED <<vrm, rigRot, basePose, boneStates, poseTransition,
                 currentMotion, motionTime, elapsedTime, currentPositionY,
                 positionVelocityY, transitionDuration>>

\* A faulty stop that leaves the gesture playing
stopBodyGestureIgnored ==
  /\ Call
  /\ last' = Obs("stopBodyGesture", "")
  /\ UNCHANGED <<vrm, rigRot, basePose, boneStates, poseTransition,
                 currentMotion, gestureAnimation, motionTime, elapsedTime,
                 currentPositionY, positionVelocityY, transitionDuration>>

\* stopBodyGesture()
stopBodyGesture ==
  /\ Call
  /\ gestureAnimation' = <<>>
  /\ last' = Obs("stopBodyGesture", "")
  /\ UNCHANGED <<vrm, rigRot, basePose, boneStates, poseTransition,
                 currentMotion, motionTime, elapsedTime, currentPositionY,
                 positionVelocityY, transitionDuration>>

\* setBodyMotion(motion)
setBodyMotion(motion) ==
  /\ Call
  /\ currentMotion' = <<motion>>
  /\ last' = Obs("setBodyMotion", motion.id)
  /\ UNCHANGED <<vrm, rigRot, basePose, boneStates, poseTransition,
                 gestureAnimation, motionTime, elapsedTime, currentPositionY,
                 positionVelocityY, transitionDuration>>

\* ------------------------------------------------------------------------
\* update(delta), step 1: updatePoseTransition
\* ------------------------------------------------------------------------
\* Math.min(elapsed / duration, 1).  elapsed / 0 is NaN for elapsed = 0 and
\* +Infinity for elapsed > 0; Math.min(NaN, 1) is NaN.
transitionProgress(elapsed, duration) ==
  CASE duration # 0 -> Min(MulDiv(elapsed, Scale, duration), Scale)
    [] duration = 0 /\ elapsed = 0 -> NaN
    [] duration = 0 /\ elapsed > 0 -> Scale

\* progress >= 1 (false for NaN)
transitionComplete(progress) == progress # NaN /\ progress >= Scale

\* the target the transition writes for a bone of toPose
transitionTarget(t, b, easedProgress) ==
  degToRad3(Lerp3(OrZero(t.fromPose, b), t.toPose[b], easedProgress))

setTargets(bs, writes) ==
  [b \in DOMAIN bs |->
     IF b \in DOMAIN writes THEN [bs[b] EXCEPT !.target = writes[b]] ELSE bs[b]]

\* Returns the transition left, the progress evaluated and the targets written.
updatePoseTransition(pt, bs, now) ==
  IF pt = <<>> \/ ~hasHumanoid
  THEN [pt |-> pt, progress |-> <<>>, writes |-> NoWrites]
  ELSE LET t == pt[1]
           progress == transitionProgress(now - t.startTime, t.duration)
           easedProgress == easeInOutCubic(progress)
       IN  [pt |-> IF transitionComplete(progress) THEN <<>> ELSE pt,
            progress |-> <<progress>>,
            writes |-> [b \in DOMAIN t.toPose \cap DOMAIN bs |->
                          transitionTarget(t, b, easedProgress)]]

\* ------------------------------------------------------------------------
\* update(delta), step 2: updateGestureAnimation
\* ------------------------------------------------------------------------
\* elapsed / gesture.duration
gestureProgress(elapsed, duration) == MulDiv(elapsed, Scale, duration)

\* The index i of the first pair with time_i <= progress < time_(i+1), or 0
bracket(keyframes, progress) ==
  LET hits == {i \in 1 .. Len(keyframes) - 1 :
                 progress >= keyframes[i].time /\ progress < keyframes[i + 1].time}
  IN  IF hits = {} THEN 0 ELSE CHOOSE i \in hits : \A j \in hits : i <= j

prevKeyframeOf(keyframes, progress) ==
  IF bracket(keyframes, progress) = 0 THEN keyframes[1]
  ELSE keyframes[bracket(keyframes, progress)]

\* keyframes[1] || keyframes[0] unless a bracketing pair is found
nextKeyframeOf(keyframes, progress) ==
  IF bracket(keyframes, progress) = 0
  THEN (IF Len(keyframes) >= 2 THEN keyframes[2] ELSE keyframes[1])
  ELSE keyframes[bracket(keyframes, progress) + 1]

\* the eased interpolation factor between the two keyframes
keyframeT(prev, next, progress) ==
  LET keyframeDuration == next.time - prev.time
      rawT == IF keyframeDuration > 0
              THEN MulDiv(progress - prev.time, Scale, keyframeDuration)
              ELSE 0
  IN  easeInOutSine(rawT)

\* A faulty interpolation over the bones the earlier keyframe lists
gestureTargetsOfPrev(keyframes, progress, bs) ==
  LET prev == prevKeyframeOf(keyframes, progress)
      next == nextKeyframeOf(keyframes, progress)
      t == keyframeT(prev, next, progress)
  IN  [b \in DOMAIN prev.bones \cap DOMAIN bs |->
         degToRad3(Lerp3(prev.bones[b], OrZero(next.bones, b), t))]

\* the targets the gesture writes at `progress`
gestureTargets(keyframes, progress, bs) ==
  LET prev == prevKeyframeOf(keyframes, progress)
      next == nextKeyframeOf(keyframes, progress)
      t == keyframeT(prev, next, progress)
  IN  [b \in DOMAIN next.bones \cap DOMAIN bs |->
         degToRad3(Lerp3(OrZero(prev.bones, b), next.bones[b], t))]

\* A faulty player that holds a finished non-looping gesture at its last
\* keyframe instead of clearing it
updateGestureAnimationHolding(ga, bs, now) ==
  IF ga = <<>> \/ ~hasHumanoid \/ ~ga[1].isPlaying
  THEN [ga |-> ga, writes |-> NoWrites, ended |-> FALSE, threw |-> FALSE]
  ELSE IF Len(ga[1].gesture.keyframes) = 0
  THEN [ga |-> ga, writes |-> NoWrites, ended |-> FALSE, threw |-> TRUE]
  ELSE [ga |-> ga,
        writes |-> gestureTargets(ga[1].gesture.keyframes,
                                  Min(gestureProgress(now - ga[1].startTime,
                                                      ga[1].gesture.duration),
                                      Scale - 1),
                                  bs),
        ended |-> FALSE, threw |-> FALSE]

\* Returns the gesture state left, the targets written, whether a finished
\* gesture was cleared and whether the step threw: reading .time of
\* keyframes[0] of an empty list is a TypeError.
updateGestureAnimation(ga, bs, now) ==
  IF ga = <<>> \/ ~hasHumanoid \/ ~ga[1].isPlaying
  THEN [ga |-> ga, writes |-> NoWrites, ended |-> FALSE, threw |-> FALSE]
  ELSE LET g == ga[1].gesture
           progress0 == gestureProgress(now - ga[1].startTime, g.duration)
           done == progress0 >= Scale
           progress == IF done THEN 0 ELSE progress0
           ga1 == IF done THEN <<[ga[1] EXCEPT !.startTime = now]>> ELSE ga
       IN  IF done /\ ~g.loop
           THEN [ga |-> <<>>, writes |-> NoWrites, ended |-> TRUE, threw |-> FALSE]
           ELSE IF Len(g.keyframes) = 0
           THEN [ga |-> ga1, writes |-> NoWrites, ended |-> FALSE, threw |-> TRUE]
           ELSE [ga |-> ga1, writes |-> gestureTargets(g.keyframes, progress, bs),
                 ended |-> FALSE, threw |-> FALSE]

\* ------------------------------------------------------------------------
\* Oscillators of the easing library
\* ------------------------------------------------------------------------
\* a * f for a factor f in 1/Scale
Mul(a, f) == MulDiv(a, f, Scale)

\* the JavaScript % (the sign of the dividend)
Rem(a, b) == a - b * Quot(a, b)

\* time * Math.PI * 2 for a time in ms
Turns(time) == MulDiv(time, 2 * PI, 1000)

organicOscillation(time, baseFrequency) ==
  LET primary == Sin(Mul(Turns(time), baseFrequency))
      harmonic1 == Mul(Sin(Mul(Mul(Turns(time), baseFrequency), 15000)), 2000)
      harmonic2 == Mul(Sin(Mul(Mul(Turns(time), baseFrequency), 7000)), 1500)
  IN  MulDiv(primary + harmonic1 + harmonic2, Scale, 13500)

breathingCurve(time, breathsPerMinute) ==
  LET phase == Rem(MulDiv(time * breathsPerMinute, Scale, 60 * 1000), Scale)
  IN  IF phase < 4000
      THEN easeOutSine(MulDiv(phase, Scale, 4000))
      ELSE Scale - easeInSine(MulDiv(phase - 4000, Scale, 6000))

headMicroMovement(time) ==
  [yaw |-> Mul(organicOscillation(time, 1000), 5000)
           + Mul(organicOscillation(time, 1700), 3000),
   pitch |-> Mul(organicOscillation(time, 800), 3000)
             + Mul(organicOscillation(time, 1300), 2000),
   roll |-> Mul(organicOscillation(time, 500), 1500)]

\* ------------------------------------------------------------------------
\* update(delta), step 3: updateBodyMotion
\* ------------------------------------------------------------------------
\* offsets[bone] = v
Put(offsets, bone, v) ==
  [b \in DOMAIN offsets \cup {bone} |-> IF b = bone THEN v ELSE offsets[b]]

\* offsets[bone] = offsets[bone] || [0, 0, 0]; offsets[bone][i] += d[i]
Add(offsets, bone, d) ==
  LET o == OrZero(offsets, bone)
  IN  Put(offsets, bone, Vec3(o[1] + d[1], o[2] + d[2], o[3] + d[3]))

calculateBreathingOffsets(time, amplitude, offsets) ==
  LET breath == Mul(amplitude, breathingCurve(time, 14))
      o1 == Put(offsets, "chest", Vec3(Mul(breath, 4000), 0, 0))
      o2 == Put(o1, "spine", Vec3(Mul(breath, 2000), 0, 0))
      o3 == Put(o2, "leftUpperArm", Vec3(-Mul(breath, 1000), 0, -Mul(breath, 1500)))
  IN  Put(o3, "rightUpperArm", Vec3(-Mul(breath, 1000), 0, Mul(breath, 1500)))

calculateSwayOffsets(time, amplitude, offsets) ==
  LET sway == Mul(amplitude, organicOscillation(time, 1500))
      o1 == Add(offsets, "spine", Vec3(0, 0, sway))
  IN  Add(o1, "head", Vec3(0, Mul(sway, 2000), Mul(sway, 3000)))

calculateHeadMicroMovement(time, intensity, offsets) ==
  LET movement == headMicroMovement(time)
      o1 == Add(offsets, "head", Vec3(Mul(movement.pitch, intensity),
                                      Mul(movement.yaw, intensity),
                                      Mul(movement.roll, intensity)))
  IN  Add(o1, "neck", Vec3(Mul(Mul(movement.pitch, intensity), 3000),
                           Mul(Mul(movement.yaw, intensity), 2000), 0))

\* params.x || d
OrDefault(x, d) == IF x = 0 THEN d ELSE x

calculateWalkingOffsets(time, motion, intensity, offsets) ==
  LET strideLength == Mul(OrDefault(motion.strideLength, 25 * Scale), intensity)
      armSwing == Mul(OrDefault(motion.armSwing, 30 * Scale), intensity)
      bodyBob == Mul(OrDefault(motion.amplitude, 3 * Scale), intensity)
      walkCycle == Turns(time)
      legPhase == Sin(walkCycle)
      legPhaseOffset == Sin(walkCycle + PI)
      kneePhase == Mul(Max(0, Sin(walkCycle)), 5000)
      kneePhaseOffset == Mul(Max(0, Sin(walkCycle + PI)), 5000)
      leftKneeBend == Mul(Mul(strideLength, Max(0, legPhase)), 8000) + kneePhase * 20
      rightKneeBend ==
        Mul(Mul(strideLength, Max(0, legPhaseOffset)), 8000) + kneePhaseOffset * 20
      doubleBounce == Abs(Sin(walkCycle * 2))
      sway == Mul(bodyBob, legPhase)
      bob == Mul(bodyBob, doubleBounce)
      o1 == Put(offsets, "leftUpperLeg", Vec3(Mul(strideLength, legPhase), 0, 0))
      o2 == Put(o1, "rightUpperLeg", Vec3(Mul(strideLength, legPhaseOffset), 0, 0))
      o3 == Put(o2, "leftLowerLeg", Vec3(leftKneeBend, 0, 0))
      o4 == Put(o3, "rightLowerLeg", Vec3(rightKneeBend, 0, 0))
      o5 == Put(o4, "leftUpperArm",
                Vec3(Mul(Mul(armSwing, -legPhaseOffset), 6000), 0, 0))
      o6 == Put(o5, "rightUpperArm", Vec3(Mul(Mul(armSwing, -legPhase), 6000), 0, 0))
      o7 == Put(o6, "leftLowerArm",
                Vec3(Mul(Mul(armSwing, Max(0, -legPhaseOffset)), 3000), 0, 0))
      o8 == Put(o7, "rightLowerArm",
                Vec3(Mul(Mul(armSwing, Max(0, -legPhase)), 3000), 0, 0))
      o9 == Put(o8, "spine", Vec3(Mul(bodyBob, 5000), Mul(sway, 3000), Mul(sway, 2000)))
      o10 == Put(o9, "chest", Vec3(Mul(bob, 2000), -Mul(sway, 2000), 0))
      o11 == Put(o10, "head", Vec3(-Mul(bob, 1000), Mul(sway, 1000), 0))
      o12 == Put(o11, "neck", Vec3(0, -Mul(sway, 1500), 0))
  IN  Put(o12, "hips", Vec3(0, Mul(sway, 5000), Mul(sway, 3000)))

\* (params?.amplitude || 2) * intensity
motionAmplitude(motion) == Mul(OrDefault(motion.amplitude, 2 * Scale), motion.intensity)

\* this.motionTime * speed
motionClock(motion, mt) == Mul(mt, motion.speed)

\* the degree offsets the motion computes at motion time mt (none for the
\* types that move the root position instead)
motionOffsets(motion, mt) ==
  LET time == motionClock(motion, mt)
      amplitude == motionAmplitude(motion)
  IN  CASE motion.type = "breathing" ->
             calculateBreathingOffsets(time, amplitude, NoWrites)
        [] motion.type = "sway" -> calculateSwayOffsets(time, amplitude, NoWrites)
        [] motion.type = "walk" ->
             calculateWalkingOffsets(time, motion, motion.intensity, NoWrites)
        [] motion.type = "custom" ->
             calculateHeadMicroMovement(time, motion.intensity,
               calculateSwayOffsets(Mul(time, 7000), Mul(amplitude, 3000),
                 calculateBreathingOffsets(time, Mul(amplitude, 6000), NoWrites)))
        [] OTHER -> NoWrites

\* the root height bounce and float steer to
positionTarget(motion, mt) ==
  LET time == motionClock(motion, mt)
      amplitude == motionAmplitude(motion)
  IN  IF motion.type = "bounce"
      THEN basePositionY + Mul(amplitude, Abs(Sin(Turns(time))))
      ELSE basePositionY + Mul(amplitude, Sin(Turns(time) \div 4))

\* Faulty early returns that let continuous motion run under a gesture
motionSkippedNoGesture(cm, ga) ==
  \/ cm = <<>>
  \/ ~hasHumanoid
  \/ cm[1].intensity = 0
  \/ (cm[1].type = "custom" /\ ~cm[1].hasParams)

\* the early returns of updateBodyMotion
motionSkipped(cm, ga) ==
  \/ cm = <<>>
  \/ ~hasHumanoid
  \/ cm[1].intensity = 0
  \/ (cm[1].type = "custom" /\ ~cm[1].hasParams)
  \/ (ga # <<>> /\ ga[1].isPlaying)

\* the target continuous motion writes for a bone
motionTarget(base, b, offset) ==
  LET basePoseRotation == OrZero(base, b)
  IN  degToRad3(Vec3(basePoseRotation[1] + offset[1],
                     basePoseRotation[2] + offset[2],
                     basePoseRotation[3] + offset[3]))

\* A faulty motion step that adds the offset to the bone's previous target
updateBodyMotionAccumulating(cm, ga, pt, base, bs, mt) ==
  IF motionSkipped(cm, ga) \/ cm[1].type \in {"bounce", "float"} \/ pt # <<>>
  THEN NoWrites
  ELSE The({[b \in DOMAIN offsets \cap DOMAIN bs |->
                motionTarget([k \in DOMAIN bs |-> radToDeg3(bs[k].target)],
                             b, offsets[b])] :
              offsets \in {motionOffsets(cm[1], mt)}})

\* the bone targets continuous motion writes; pt and ga are the transition
\* and the gesture as steps 1 and 2 left them
updateBodyMotion(cm, ga, pt, base, bs, mt) ==
  IF motionSkipped(cm, ga) \/ cm[1].type \in {"bounce", "float"} \/ pt # <<>>
  THEN NoWrites
  ELSE The({[b \in DOMAIN offsets \cap DOMAIN bs |->
                motionTarget(base, b, offsets[b])] :
              offsets \in {motionOffsets(cm[1], mt)}})

\* updateBouncePosition / updateFloatPosition: the smoothed root height
updatePosition(cm, ga, mt, y, vy, delta) ==
  IF motionSkipped(cm, ga) \/ cm[1].type \notin {"bounce", "float"}
  THEN [value |-> y, velocity |-> vy]
  ELSE smoothDamp(y, positionTarget(cm[1], mt), vy,
                  IF cm[1].type = "bounce" THEN 800 ELSE 3000, delta)

\* ------------------------------------------------------------------------
\* update(delta), step 4: applyBoneRotations
\* ------------------------------------------------------------------------
\* A faulty smoothing step that snaps a bone to its target
smoothBoneSnapping(st, delta) ==
  [current |-> st.target, target |-> st.target, velocity |-> Zero3]

smoothBone(st, delta) ==
  LET x == smoothDamp(st.current[1], st.target[1], st.velocity[1], smoothTime, delta)
      y == smoothDamp(st.current[2], st.target[2], st.velocity[2], smoothTime, delta)
      z == smoothDamp(st.current[3], st.target[3], st.velocity[3], smoothTime, delta)
  IN  [current |-> Vec3(x.value, y.value, z.value),
       target |-> st.target,
       velocity |-> Vec3(x.velocity, y.velocity, z.velocity)]

applyBoneRotations(bs, delta) ==
  [b \in DOMAIN bs |->
     IF b \in BONE_MAP /\ b \in RigBones THEN smoothBone(bs[b], delta) ELSE bs[b]]

\* bone.rotation.set(current) for every bone state with a node
writeRig(rot, bs) ==
  [b \in DOMAIN rot |->
     IF b \in DOMAIN bs /\ b \in BONE_MAP THEN bs[b].current ELSE rot[b]]

\* ------------------------------------------------------------------------
\* update(delta)
\* ------------------------------------------------------------------------
update(delta) ==
  /\ Call
  /\ UNCHANGED <<vrm, basePose, currentMotion, transitionDuration>>
  /\ IF ~hasHumanoid
     THEN /\ last' = Obs("update", "")
          /\ UNCHANGED <<rigRot, boneStates, poseTransition, gestureAnimation,
                         motionTime, elapsedTime, currentPositionY,
                         positionVelocityY>>
     ELSE \E now \in {elapsedTime + delta}, mt \in {motionTime + delta} :
          \E tr \in {updatePoseTransition(poseTransition, boneStates, now)} :
          \E bs1 \in {setTargets(boneStates, tr.writes)} :
          \E gs \in {updateGestureAnimation(gestureAnimation, bs1, now)} :
          \E bs2 \in {setTargets(bs1, gs.writes)} :
          \E mo \in {updateBodyMotion(currentMotion, gs.ga, tr.pt, basePose,
                                      bs2, mt)} :
          \E bs3 \in {setTargets(bs2, mo)} :
          \E pos \in {updatePosition(currentMotion, gs.ga, mt, currentPositionY,
                                     positionVelocityY, delta)} :
          \E bs4 \in {applyBoneRotations(bs3, delta)} :
              /\ motionTime' = mt
              /\ elapsedTime' = now
              /\ poseTransition' = tr.pt
              /\ gestureAnimation' = gs.ga
              /\ IF gs.threw
                 THEN \* the exception leaves update() before steps 3 and 4
                      /\ boneStates' = bs2
                      /\ UNCHANGED <<rigRot, currentPositionY, positionVelocityY>>
                      /\ last' = [Obs("update", "") EXCEPT
                                    !.progress = tr.progress,
                                    !.trWrites = tr.writes,
                                    !.threw = TRUE]
                 ELSE /\ boneStates' = bs4
                      /\ rigRot' = writeRig(rigRot, bs4)
                      /\ currentPositionY' = pos.value
                      /\ positionVelocityY' = pos.velocity
                      /\ last' = [Obs("update", "") EXCEPT
                                    !.progress = tr.progress,
                                    !.trWrites = tr.writes,
                                    !.gsWrites = gs.writes,
                                    !.moWrites = mo,
                                    !.gestureEnded = gs.ended]

Next ==
  \/ init
  \/ dispose
  \/ \E duration \in Durations : setTransitionDuration(duration)
  \/ \E pose \in Poses : applyPose(pose)
  \/ \E gesture \in Gestures : playBodyGesture(gesture)
  \/ stopBodyGesture
  \/ \E motion \in Motions : setBodyMotion(motion)
  \/ \E delta \in Deltas : update(delta)

Spec == Init /\ [][Next]_vars

\* the fields of the controller and the rig it drives
controllerState ==
  <<vrm, rigRot, basePose, boneStates, poseTransition, currentMotion,
    gestureAnimation, motionTime, elapsedTime, currentPositionY,
    positionVelocityY, transitionDuration>>

\* a bone map, a transition and a gesture without the bones the rig lacks
OnRig(m) == [b \in DOMAIN m \cap RigBones |-> m[b]]

OnRigTransition(pt) ==
  IF pt = <<>> THEN pt
  ELSE <<[pt[1] EXCEPT !.fromPose = OnRig(@), !.toPose = OnRig(@)]>>

OnRigGesture(ga) ==
  IF ga = <<>> THEN ga
  ELSE <<[ga[1] EXCEPT !.gesture.keyframes =
            [i \in DOMAIN @ |-> [@[i] EXCEPT !.bones = OnRig(@)]]]>>

\* ------------------------------------------------------------------------
\* Properties
\* ------------------------------------------------------------------------
\* C1: no update tick writes one bone's target first from the pose transition
\* or the gesture player and then from continuous motion, the tick in which
\* the transition reaches progress 1 included.
C1_MotionSuspended ==
  last.op = "update" =>
    DOMAIN last.moWrites \cap (DOMAIN last.trWrites \cup DOMAIN last.gsWrites) = {}

\* C2: there is at most one pose transition, and an applyPose on an
\* initialized controller leaves a transition whose start value for every
\* tracked bone of the merged pose is the bone's current rotation (in
\* degrees) at the call, also when it replaces a transition in flight.
C2_ApplyPoseRestarts ==
  /\ [](Len(poseTransition) <= 1)
  /\ [][(last'.op = "applyPose" /\ steps' # steps /\ hasHumanoid) =>
          /\ Len(poseTransition') = 1
          /\ DOMAIN poseTransition'[1].fromPose =
               DOMAIN basePose \cup DOMAIN poseTransition'[1].toPose
          /\ \A b \in DOMAIN poseTransition'[1].fromPose \cap DOMAIN boneStates :
               poseTransition'[1].fromPose[b] = radToDeg3(boneStates[b].current)]_vars

\* an applyPose has replaced a transition in flight while a tracked bone was
\* part-way: its start value is the rotation reached, not the relaxed pose
\* the discarded transition started from
C2_Witness ==
  /\ last.op = "applyPose"
  /\ last.hadTransition
  /\ poseTransition # <<>>
  /\ \E b \in DOMAIN boneStates \cap DOMAIN poseTransition[1].toPose :
       /\ poseTransition[1].fromPose[b] = radToDeg3(boneStates[b].current)
       /\ poseTransition[1].fromPose[b] # OrZero(DEFAULT_RELAXED_POSE, b)
       /\ boneStates[b].current # boneStates[b].target

\* C3: applyPose(preset) on an initialized controller sets the base pose in
\* the same call to merge(previous base pose, preset.bones): the preset's
\* bones take the preset's values, the others keep theirs, and the
\* transition's toPose is the new base pose.
C3_BasePoseMerged ==
  [][(last'.op = "applyPose" /\ steps' # steps /\ hasHumanoid) =>
       \E pose \in Poses :
         /\ pose.id = last'.arg
         /\ DOMAIN basePose' = DOMAIN basePose \cup DOMAIN pose.bones
         /\ \A b \in DOMAIN pose.bones : basePose'[b] = pose.bones[b]
         /\ \A b \in DOMAIN basePose \ DOMAIN pose.bones : basePose'[b] = basePose[b]
         /\ poseTransition'[1].toPose = basePose']_vars

\* applyPose(thinking) has just returned: the base pose has the preset's
\* right arm and still the relaxed spine, which the preset does not list
C3_Witness ==
  /\ last.op = "applyPose"
  /\ last.arg = "thinking"
  /\ hasHumanoid
  /\ basePose["rightUpperArm"] = PoseThinking.bones["rightUpperArm"]
  /\ basePose["rightUpperArm"] # DEFAULT_RELAXED_POSE["rightUpperArm"]
  /\ "spine" \notin DOMAIN PoseThinking.bones
  /\ basePose["spine"] = DEFAULT_RELAXED_POSE["spine"]
  /\ poseTransition # <<>>
  /\ poseTransition[1].toPose = basePose

\* C4: update leaves the base pose as it is, and every target continuous
\* motion writes is degToRad(basePose[bone] + offset(bone, motion time)): a
\* function of the base pose, the motion and the motion time alone.
C4_MotionFromBasePose ==
  [][(last'.op = "update" /\ steps' # steps) =>
       /\ basePose' = basePose
       /\ \A b \in DOMAIN last'.moWrites :
            /\ last'.moWrites[b] =
                 motionTarget(basePose, b, motionOffsets(currentMotion[1], motionTime')[b])
            /\ boneStates'[b].target = last'.moWrites[b]]_vars

\* a tick in which continuous motion has moved a tracked bone's target off
\* its base pose, the previous target being another value
C4_Witness ==
  /\ last.op = "update"
  /\ motionTime > 0
  /\ \E b \in DOMAIN last.moWrites :
       /\ boneStates[b].target = last.moWrites[b]
       /\ last.moWrites[b] # degToRad3(OrZero(basePose, b))
       /\ boneStates[b].current # degToRad3(OrZero(basePose, b))

\* C5: the progress a pose transition passes to its easing is in [0, 1] in
\* every tick, for every sequence of init, setTransitionDuration, applyPose
\* and update calls.
C5_ProgressClamped ==
  (last.op = "update" /\ last.progress # <<>>) =>
    /\ last.progress[1] # NaN
    /\ last.progress[1] >= 0
    /\ last.progress[1] <= Scale

\* C6: a pose transition stays set in every tick whose elapsed time since
\* applyPose is below the transition's duration and is cleared in the first
\* tick where it is at least the duration; in that tick the transition writes
\* exactly toPose, in radians, for every tracked bone of toPose.
C6_TransitionCompletes ==
  [][(last'.op = "update" /\ steps' # steps /\ hasHumanoid /\ poseTransition # <<>>) =>
       IF elapsedTime' - poseTransition[1].startTime < poseTransition[1].duration
       THEN poseTransition' = poseTransition
       ELSE /\ poseTransition' = <<>>
            /\ \A b \in DOMAIN poseTransition[1].toPose \cap DOMAIN boneStates :
                 last'.trWrites[b] = degToRad3(poseTransition[1].toPose[b])]_vars

C8_LoopKeepsPhase ==
  [][(/\ last'.op = "update" /\ steps' # steps /\ hasHumanoid
      /\ gestureAnimation # <<>>
      /\ gestureAnimation[1].isPlaying
      /\ gestureAnimation[1].gesture.loop
      /\ elapsedTime >= gestureAnimation[1].startTime) =>
       /\ gestureAnimation' # <<>>
       /\ elapsedTime' - gestureAnimation'[1].startTime =
            (elapsedTime' - gestureAnimation[1].startTime)
              % gestureAnimation[1].gesture.duration]_vars

\* C9: in a tick where the gesture player writes bone b, b's target at the
\* end of the tick is the gesture's interpolated value, whatever a pose
\* transition or a body motion active in the tick does with b.
C9_GestureWins ==
  (last.op = "update" /\ ~last.threw) =>
    \A b \in DOMAIN last.gsWrites :
      /\ boneStates[b].target = last.gsWrites[b]
      /\ b \notin DOMAIN last.moWrites

\* a tick in which a nod wrote the head while a pose transition wrote it too,
\* with another value, and a sway (which moves the head) was set
C9_Witness ==
  /\ last.op = "update"
  /\ ~last.threw
  /\ "head" \in DOMAIN last.gsWrites \cap DOMAIN last.trWrites
  /\ last.trWrites["head"] # last.gsWrites["head"]
  /\ currentMotion # <<>>
  /\ currentMotion[1].type = "sway"
  /\ currentMotion[1].intensity # 0
  /\ boneStates["head"].target = last.gsWrites["head"]

\* C10: after playBodyGesture with an empty keyframe list every update
\* returns normally and writes no gesture target.
C10_EmptyGestureNoOp ==
  last.op = "update" =>
    /\ ~last.threw
    /\ (gestureAnimation # <<>> /\ gestureAnimation[1].gesture.keyframes = <<>>) =>
         last.gsWrites = NoWrites

\* C11: update before init or after dispose changes no state of the
\* controller and raises no error, and dispose on a disposed controller
\* leaves the state the first dispose left.
C11_InertWithoutRig ==
  /\ [][(last'.op = "update" /\ steps' # steps /\ vrm = <<>>) =>
          (~last'.threw /\ UNCHANGED controllerState)]_vars
  /\ [][(last.op = "dispose" /\ last'.op = "dispose" /\ steps' # steps) =>
          UNCHANGED controllerState]_vars

\* update has returned on a controller that was initialized, ticked and then
\* disposed: the clocks still have the value the last tick left
C11_Witness ==
  /\ last.op = "update"
  /\ vrm = <<>>
  /\ ~last.threw
  /\ elapsedTime > 0
  /\ boneStates = NoWrites

\* C12: under a motion with negative intensity, update writes what it writes
\* for intensity 0: no continuous-motion offset (a target it writes is the
\* bone's base pose).
C12_NegativeIntensityInert ==
  (last.op = "update" /\ currentMotion # <<>> /\ currentMotion[1].intensity < 0) =>
    \A b \in DOMAIN last.moWrites : last.moWrites[b] = degToRad3(OrZero(basePose, b))

\* C13: a bone the rig has no node for never has a state; applyPose and
\* update leave it without one, and what they write to the other bones is
\* what they write when the base pose, the preset and the gesture do not
\* mention the bones the rig lacks; a missing bone makes no call fail.
C13_MissingBonesSkipped ==
  /\ [](DOMAIN boneStates \subseteq BONE_MAP \cap RigBones)
  /\ [](hasHumanoid => DOMAIN boneStates = BONE_MAP \cap RigBones)
  /\ [][(last'.op = "applyPose" /\ steps' # steps /\ hasHumanoid) =>
          \E pose \in Poses :
            /\ pose.id = last'.arg
            /\ boneStates' = boneStates
            /\ OnRigTransition(poseTransition') =
                 OnRigTransition(
                   <<newTransition(OnRig(basePose), boneStates,
                                   [pose EXCEPT !.bones = OnRig(@)],
                                   elapsedTime, transitionDuration)>>)]_vars
  /\ [][(last'.op = "update" /\ steps' # steps /\ hasHumanoid) =>
          \E tr \in {updatePoseTransition(OnRigTransition(poseTransition),
                                         boneStates, elapsedTime')} :
          \E bs1 \in {setTargets(boneStates, tr.writes)} :
          \E gs \in {updateGestureAnimation(OnRigGesture(gestureAnimation),
                                           bs1, elapsedTime')} :
          \E bs2 \in {setTargets(bs1, gs.writes)} :
          \E mo \in {updateBodyMotion(currentMotion, gs.ga, tr.pt, OnRig(basePose),
                                     bs2, motionTime')} :
            /\ DOMAIN boneStates' = DOMAIN boneStates
            /\ last'.trWrites = tr.writes
            /\ last'.gsWrites = gs.writes
            /\ last'.threw = gs.threw
            /\ ~gs.threw => last'.moWrites = mo
            /\ boneStates' =
                 IF gs.threw THEN bs2
                 ELSE applyBoneRotations(setTargets(bs2, mo), elapsedTime' - elapsedTime)]_vars

\* a tick of a transition to "thinking" on the rig that lacks the left arm:
\* the right arm is written, the left arm of the base pose has no state
C13_Witness ==
  /\ last.op = "update"
  /\ ~last.threw
  /\ "rightUpperArm" \in DOMAIN last.trWrites
  /\ "leftUpperArm" \in DOMAIN basePose
  /\ "leftUpperArm" \notin DOMAIN boneStates
  /\ "leftUpperArm" \notin DOMAIN last.trWrites
  /\ basePose["leftUpperArm"] = PoseThinking.bones["leftUpperArm"]

\* C14: stopBodyGesture and dispose clear the gesture state within the call;
\* with no gesture set, update writes no gesture target; and the update that
\* follows stopBodyGesture applies the motion that is set as it does without
\* a gesture: a bone-rotating motion with non-zero intensity writes its bone
\* targets when no pose transition is in flight.
C14_StopIsImmediate ==
  /\ [][(last'.op \in {"stopBodyGesture", "dispose"} /\ steps' # steps) =>
          gestureAnimation' = <<>>]_vars
  /\ [][(last'.op = "update" /\ steps' # steps /\ gestureAnimation = <<>>) =>
          (last'.gsWrites = NoWrites /\ gestureAnimation' = <<>> /\ ~last'.threw)]_vars
  /\ [][(/\ last.op = "stopBodyGesture"
         /\ last'.op = "update" /\ steps' # steps /\ hasHumanoid
         /\ currentMotion # <<>>) =>
          /\ last'.moWrites =
               updateBodyMotion(currentMotion, <<>>, poseTransition', basePose,
                                boneStates, motionTime')
          /\ <<currentPositionY', positionVelocityY'>> =
               <<updatePosition(currentMotion, <<>>, motionTime', currentPositionY,
                                positionVelocityY, elapsedTime' - elapsedTime).value,
                 updatePosition(currentMotion, <<>>, motionTime', currentPositionY,
                                positionVelocityY, elapsedTime' - elapsedTime).velocity>>
          /\ (/\ poseTransition' = <<>>
              /\ currentMotion[1].intensity # 0
              /\ \/ currentMotion[1].type \in {"breathing", "sway", "walk"}
                 \/ currentMotion[1].type = "custom" /\ currentMotion[1].hasParams) =>
               /\ last'.moWrites # NoWrites
               /\ \A b \in DOMAIN last'.moWrites :
                    boneStates'[b].target = last'.moWrites[b]]_vars

\* stopBodyGesture has just cleared a gesture that had played for a while,
\* a motion being set
C14_Witness ==
  /\ last.op = "stopBodyGesture"
  /\ last.hadGesture
  /\ gestureAnimation = <<>>
  /\ hasHumanoid
  /\ elapsedTime > 0
  /\ currentMotion # <<>>
  /\ currentMotion[1].intensity # 0

\* ------------------------------------------------------------------------
\* calculateWalkingOffsets on its own: one call for every sampled motion
\* clock and every walk motion
\* ------------------------------------------------------------------------
\* the motion clocks (motionTime * speed, in ms) a walk is sampled at
WalkTimeStep == 125
MaxWalkSamples == 16
WalkTimes == {WalkTimeStep * k : k \in 0..MaxWalkSamples}

WalkMotions ==
  {MotionWalkSlow, MotionWalkNormal, MotionWalkBrisk, MotionMarchInPlace,
   MotionWalkBare, MotionWalkBackward}

InitWalk ==
  /\ newPoseController
  /\ newAnimationController
  /\ newSpeechMouthLayer(MouthConfigDefault)
  /\ newIdleBodyLayer
  /\ input \in [time : WalkTimes, motion : WalkMotions]
  /\ output = <<>>

\* calculateWalkingOffsets(time, params || {}, intensity, {})
walkingOffsets ==
  /\ output = <<>>
  /\ output' = calculateWalkingOffsets(input.time, input.motion,
                                        input.motion.intensity, NoWrites)
  /\ UNCHANGED <<poseVars, layerVars, mouthVars, idleVars, input>>

NextWalk == walkingOffsets

SpecWalk == InitWalk /\ [][NextWalk]_vars

\* Math.sin(x) === 0 for a double x: only x = 0 has the sine 0, as no other
\* double is a whole multiple of pi (Math.sin(Math.PI) is 1.2246e-16, which
\* the fixed-point Sin rounds to 0)
sinIsZero(x) == x = 0

\* whether the x offset of each upper leg is exactly 0: the products
\* legPhase * strideLength and legPhaseOffset * strideLength
upperLegIsZero(time, motion, intensity) ==
  LET strideLength == Mul(OrDefault(motion.strideLength, 25 * Scale), intensity)
      walkCycle == Turns(time)
  IN  [leftUpperLeg |-> sinIsZero(walkCycle) \/ strideLength = 0,
       rightUpperLeg |-> sinIsZero(walkCycle + PI) \/ strideLength = 0]

\* C15: for a walk motion, at every motion time, the x offsets of the left
\* and the right upper leg are exact negatives of each other, one is exactly
\* zero only when the other is, and their y and z offsets are zero.
C15_UpperLegsMirror ==
  output # <<>> =>
    /\ output.leftUpperLeg[1] = -output.rightUpperLeg[1]
    /\ \E zero \in {upperLegIsZero(input.time, input.motion, input.motion.intensity)} :
         zero.leftUpperLeg <=> zero.rightUpperLeg
    /\ output.leftUpperLeg[2] = 0 /\ output.leftUpperLeg[3] = 0
    /\ output.rightUpperLeg[2] = 0 /\ output.rightUpperLeg[3] = 0

\* C16: for a walk motion with positive intensity, stride and arm swing, at
\* every motion time the x offset of each upper arm has the opposite sign to
\* the x offset of the upper leg of its side, and the magnitude
\* 0.6 * armSwing * |legPhase|.
C16_ArmsAgainstSameSideLeg ==
  (/\ output # <<>>
   /\ input.motion.intensity > 0
   /\ input.motion.strideLength > 0
   /\ input.motion.armSwing > 0) =>
    \E armSwing \in {Mul(input.motion.armSwing, input.motion.intensity)},
       legPhase \in {Sin(Turns(input.time))} :
      /\ output.leftUpperLeg[1] > 0 => output.leftUpperArm[1] < 0
      /\ output.leftUpperLeg[1] < 0 => output.leftUpperArm[1] > 0
      /\ output.rightUpperLeg[1] > 0 => output.rightUpperArm[1] < 0
      /\ output.rightUpperLeg[1] < 0 => output.rightUpperArm[1] > 0
      /\ Abs(output.leftUpperArm[1]) = Mul(Mul(armSwing, Abs(legPhase)), 6000)
      /\ Abs(output.rightUpperArm[1]) = Mul(Mul(armSwing, Abs(legPhase)), 6000)

\* C17: for a walk motion with an intensity in (0, 1] and a stride length
\* that is not negative, at every motion time the x offsets of the lower
\* legs are at least 0, so the target of a knee is never below the value its
\* base pose gives it.
C17_KneesNeverBendBackward ==
  (/\ output # <<>>
   /\ input.motion.intensity > 0
   /\ input.motion.intensity <= Scale
   /\ input.motion.strideLength >= 0) =>
    \A b \in {"leftLowerLeg", "rightLowerLeg"} :
      /\ output[b][1] >= 0
      /\ motionTarget(DEFAULT_RELAXED_POSE, b, output[b])[1]
           >= degToRad3(OrZero(DEFAULT_RELAXED_POSE, b))[1]

\* a walk in mid-stride whose left knee is bent and whose right knee is straight
C17_Witness ==
  /\ output # <<>>
  /\ input.motion = MotionWalkNormal
  /\ output.leftLowerLeg[1] > 0
  /\ output.rightLowerLeg[1] = 0

\* ------------------------------------------------------------------------
\* smoothDamp on its own: one call for every combination of sampled arguments
\* ------------------------------------------------------------------------
\* current and target (1e-4 rad), velocityRef.value (1e-4 rad/s), smoothTime
\* (0.1 ms: the controller's 0.15 s and the mouth layer's attack and release
\* times) and deltaTime (ms: no time, a 60 Hz frame, and two late frames)
DampPositions == {-5000, 0, 5000, 12000}
DampVelocities == {-30000, 0, 30000, 400000}
DampSmoothTimes == {750, 1500, 2250}
DampDeltas == {0, 16, 200, 700}

InitDamp ==
  /\ newPoseController
  /\ newAnimationController
  /\ newSpeechMouthLayer(MouthConfigDefault)
  /\ newIdleBodyLayer
  /\ input \in [current : DampPositions, target : DampPositions,
                 velocity : DampVelocities, smoothTime : DampSmoothTimes,
                 deltaTime : DampDeltas]
  /\ output = <<>>

\* smoothDamp(current, target, velocityRef, smoothTime, deltaTime)
damp ==
  /\ output = <<>>
  /\ output' = smoothDamp(input.current, input.target, input.velocity,
                           input.smoothTime, input.deltaTime)
  /\ UNCHANGED <<poseVars, layerVars, mouthVars, idleVars, input>>

NextDamp == damp

SpecDamp == InitDamp /\ [][NextDamp]_vars

\* whether smoothDamp takes the branch of its overshoot test:
\* originalTo - current > 0 === output > originalTo
smoothDampClamps(current, target, velocity, smoothTime0, deltaTime) ==
  LET omega == Quot(2 * Scale * Scale, Max(1, smoothTime0))
      x == MulDiv(omega, deltaTime, 1000)
      x2 == MulDiv(x, x, Scale)
      x3 == MulDiv(x2, x, Scale)
      exp == MulDiv(Scale, Scale,
                    Scale + x + MulDiv(x2, 48, 100) + MulDiv(x3, 235, 1000))
      change == current - target
      temp == MulDiv(velocity + MulDiv(change, omega, Scale), deltaTime, 1000)
      output1 == target + MulDiv(change + temp, exp, Scale)
  IN  (target - current > 0) = (output1 > target)

\* C18 (as stated): smoothDamp never overshoots: for every current, target
\* and velocity, smoothTime > 0 and deltaTime > 0, current <= target implies
\* output <= target, current >= target implies output >= target, and when
\* the overshoot branch is taken the output is the target and the stored
\* velocity is 0.
C18_NeverOvershoots ==
  (output # <<>> /\ input.smoothTime > 0 /\ input.deltaTime > 0) =>
    /\ input.current <= input.target => output.value <= input.target
    /\ input.current >= input.target => output.value >= input.target
    /\ smoothDampClamps(input.current, input.target, input.velocity,
                        input.smoothTime, input.deltaTime) =>
         (output.value = input.target /\ output.velocity = 0)

\* C18 (as amended): smoothDamp does not overshoot a target it approaches:
\* for every current, target and velocity, smoothTime > 0 and deltaTime > 0,
\* current < target implies output <= target, current >= target implies
\* output >= target, and when the overshoot branch is taken the output is
\* the target and the stored velocity is 0.
C18_NoOvershootWhenApproaching ==
  (output # <<>> /\ input.smoothTime > 0 /\ input.deltaTime > 0) =>
    /\ input.current < input.target => output.value <= input.target
    /\ input.current >= input.target => output.value >= input.target
    /\ smoothDampClamps(input.current, input.target, input.velocity,
                        input.smoothTime, input.deltaTime) =>
         (output.value = input.target /\ output.velocity = 0)

\* a value below its target whose velocity would carry it past: the call
\* returns the target and stores the velocity 0
C18_Witness ==
  /\ output # <<>>
  /\ input.deltaTime > 0
  /\ input.current < input.target
  /\ input.velocity > 0
  /\ smoothDampNoClamp(input.current, input.target, input.velocity,
                       input.smoothTime, input.deltaTime).value > input.target
  /\ output.value = input.target
  /\ output.velocity = 0

\* ------------------------------------------------------------------------
\* AnimationController: the expression layer stack
\* ------------------------------------------------------------------------
MaxLayerCalls == 5

\* update(delta, amplitude, isPlaying): the frames the render loop passes
\* (delta in ms, amplitude in 1e-4)
LayerDeltas == {16}
LayerAmplitudes == {0, 5000}

priority(l) == LayerClass[l].priority

\* Array.prototype.sort((a, b) => a.priority - b.priority): a stable sort,
\* so equal priorities keep their order
RECURSIVE insertByPriority(_, _)
insertByPriority(sorted, l) ==
  IF sorted = <<>> THEN <<l>>
  ELSE IF priority(sorted[Len(sorted)]) <= priority(l) THEN Append(sorted, l)
  ELSE Append(insertByPriority(SubSeq(sorted, 1, Len(sorted) - 1), l),
              sorted[Len(sorted)])

RECURSIVE sortByPriority(_)
sortByPriority(list) ==
  IF list = <<>> THEN <<>>
  ELSE insertByPriority(sortByPriority(SubSeq(list, 1, Len(list) - 1)),
                        list[Len(list)])

\* this.layers.findIndex(l => l.name === name), 0 for -1
findIndex(list, name) ==
  IF \E i \in 1..Len(list) : LayerClass[list[i]].name = name
  THEN CHOOSE i \in 1..Len(list) :
         /\ LayerClass[list[i]].name = name
         /\ \A j \in 1..(i - 1) : LayerClass[list[j]].name # name
  ELSE 0

\* list.splice(index, 1)
splice(list, index) ==
  SubSeq(list, 1, index - 1) \o SubSeq(list, index + 1, Len(list))

\* layer.dispose() for every layer of the list
disposeAll(objects, list) ==
  [l \in DOMAIN objects |->
     IF \E i \in 1..Len(list) : list[i] = l
     THEN [objects[l] EXCEPT !.vrm = <<>>] ELSE objects[l]]

AcCall == acSteps < MaxLayerCalls /\ acSteps' = acSteps + 1

\* init(vrm, mouthConfig)
acInit ==
  /\ AcCall
  /\ ac' = [ac EXCEPT !.vrm = <<"avatar">>, !.elapsed = 0]
  /\ layers' = sortByPriority(DefaultLayers)
  /\ layerObjects' =
       [l \in DOMAIN layerObjects |->
          IF \E i \in 1..Len(DefaultLayers) : DefaultLayers[i] = l
          THEN [enabled |-> TRUE, vrm |-> <<"avatar">>]
          ELSE disposeAll(layerObjects, layers)[l]]
  /\ acLast' = [op |-> "init", ticked |-> <<>>]
  /\ UNCHANGED <<poseVars, pureVars, mouthVars, idleVars>>

\* A faulty addLayer that leaves the new layer at the end of the list
addedLayersUnsorted(list, l) == Append(list, l)

\* addLayer: this.layers.push(layer); this.layers.sort(...)
addedLayers(list, l) == sortByPriority(Append(list, l))

\* addLayer(layer)
addLayer(l) ==
  /\ AcCall
  /\ layerObjects' = IF ac.vrm # <<>>
                     THEN [layerObjects EXCEPT ![l].vrm = ac.vrm]
                     ELSE layerObjects
  /\ layers' = addedLayers(layers, l)
  /\ acLast' = [op |-> "addLayer", ticked |-> <<>>]
  /\ UNCHANGED <<ac, poseVars, pureVars, mouthVars, idleVars>>

\* removeLayer(name)
removeLayer(name) ==
  /\ AcCall
  /\ \E index \in {findIndex(layers, name)} :
       IF index # 0
       THEN /\ layerObjects' = [layerObjects EXCEPT ![layers[index]].vrm = <<>>]
            /\ layers' = splice(layers, index)
       ELSE UNCHANGED <<layerObjects, layers>>
  /\ acLast' = [op |-> "removeLayer", ticked |-> <<>>]
  /\ UNCHANGED <<ac, poseVars, pureVars, mouthVars, idleVars>>

\* setLayerEnabled(name, enabled)
setLayerEnabled(name, enabled) ==
  /\ AcCall
  /\ \E index \in {findIndex(layers, name)} :
       layerObjects' = IF index # 0
                       THEN [layerObjects EXCEPT ![layers[index]].enabled = enabled]
                       ELSE layerObjects
  /\ acLast' = [op |-> "setLayerEnabled", ticked |-> <<>>]
  /\ UNCHANGED <<ac, layers, poseVars, pureVars, mouthVars, idleVars>>

\* for (const layer of this.layers) if (layer.enabled) layer.update(...):
\* the layers whose update() the loop calls, from position i on
RECURSIVE tickFrom(_, _, _)
tickFrom(list, objects, i) ==
  IF i > Len(list) THEN <<>>
  ELSE IF objects[list[i]].enabled
       THEN <<list[i]>> \o tickFrom(list, objects, i + 1)
       ELSE tickFrom(list, objects, i + 1)

\* update(delta, amplitude, isPlaying)
acUpdate(delta, amplitude, isPlaying) ==
  /\ AcCall
  /\ IF ac.vrm = <<>>
     THEN /\ acLast' = [op |-> "update", ticked |-> <<>>]
          /\ UNCHANGED ac
     ELSE /\ ac' = [ac EXCEPT !.elapsed = @ + delta, !.lastAmplitude = amplitude,
                              !.isPlaying = isPlaying]
          /\ acLast' = [op |-> "update", ticked |-> tickFrom(layers, layerObjects, 1)]
  /\ UNCHANGED <<layers, layerObjects, poseVars, pureVars, mouthVars, idleVars>>

\* dispose()
acDispose ==
  /\ AcCall
  /\ layerObjects' = disposeAll(layerObjects, layers)
  /\ layers' = <<>>
  /\ acLast' = [op |-> "dispose", ticked |-> <<>>]
  /\ UNCHANGED <<ac, poseVars, pureVars, mouthVars, idleVars>>

NextLayers ==
  \/ acInit
  \/ \E l \in CustomLayers : addLayer(l)
  \/ \E name \in LayerNames : removeLayer(name)
  \/ \E name \in LayerNames, enabled \in BOOLEAN : setLayerEnabled(name, enabled)
  \/ \E delta \in LayerDeltas, amplitude \in LayerAmplitudes, isPlaying \in BOOLEAN :
       acUpdate(delta, amplitude, isPlaying)
  \/ acDispose

SpecLayers == Init /\ [][NextLayers]_vars

\* the list is in ascending order of priority
layersSorted ==
  \A i, j \in 1..Len(layers) : i < j => priority(layers[i]) <= priority(layers[j])

\* the positions of the list that hold an enabled layer
enabledPositions == {i \in 1..Len(layers) : layerObjects[layers[i]].enabled}

\* the last update() called update() of the layer at every enabled position,
\* once for each position, in the order of the list, and of no other layer
tickedEnabledInOrder ==
  /\ Len(acLast.ticked) = Cardinality(enabledPositions)
  /\ \A i \in enabledPositions :
       acLast.ticked[Cardinality({j \in enabledPositions : j <= i})] = layers[i]

\* C19 (as stated): after any sequence of init, addLayer, removeLayer and
\* setLayerEnabled calls the layer list is sorted ascending by priority, and
\* each update ticks exactly the enabled layers, once each, in that order; by
\* default idle (50), then mouth (100), then gesture (150).
C19_SortedAndTicked ==
  /\ layersSorted
  /\ acLast.op = "update" =>
       /\ tickedEnabledInOrder
       /\ \A m, n \in 1..Len(acLast.ticked) :
            m # n => acLast.ticked[m] # acLast.ticked[n]
  /\ acLast.op = "init" => layers = <<"idle", "mouth", "gesture">>

\* C19 (as amended): after any sequence of init, addLayer, removeLayer,
\* setLayerEnabled, update and dispose calls the layer list is sorted
\* ascending by priority; an update made while a VRM is set ticks the layer
\* at every enabled position of the list, once for each position and in the
\* order of the list, and no other; an update made before the first init
\* ticks no layer and changes nothing; init leaves the list idle (50), mouth
\* (100), gesture (150), all enabled.
C19_SortedAndTickedWithAvatar ==
  /\ layersSorted
  /\ (acLast.op = "update" /\ ac.vrm # <<>>) => tickedEnabledInOrder
  /\ (acLast.op = "update" /\ ac.vrm = <<>>) =>
       (acLast.ticked = <<>> /\ ac.elapsed = 0)
  /\ acLast.op = "init" =>
       /\ layers = <<"idle", "mouth", "gesture">>
       /\ \A i \in 1..Len(layers) : layerObjects[layers[i]].enabled

\* an update that ticked idle, the caller's blush layer and gesture, in that
\* order, and passed over the disabled mouth layer
C19_Witness ==
  /\ acLast.op = "update"
  /\ layers = <<"idle", "blush", "mouth", "gesture">>
  /\ ~layerObjects["mouth"].enabled
  /\ acLast.ticked = <<"idle", "blush", "gesture">>

\* ------------------------------------------------------------------------
\* SpeechMouthLayer
\* ------------------------------------------------------------------------
MaxMouthCalls == 4

\* update(delta, context): the frame times (ms) and the amplitude (1e-4) and
\* isPlaying of the context: silence, a loud signal while nothing plays, a
\* signal at the default threshold and a loud one while playing
MouthDeltas == {0, 16, 200}
MouthFrames == {<<0, FALSE>>, <<5000, FALSE>>, <<200, TRUE>>, <<5000, TRUE>>}

\* a config that opens the mouth less
MouthConfigQuiet == MouthConfig(1500, 1000, 6000, Scale)
MouthConfigs == {MouthConfigDefault, MouthConfigQuiet}

\* init(vrm): a VRM with an expression manager and one without
MouthRigs == {<<"avatar">>, <<"noExpressions">>}

InitMouth ==
  /\ newPoseController
  /\ input = <<>>
  /\ output = <<>>
  /\ newAnimationController
  /\ \E config \in MouthConfigs : newSpeechMouthLayer(config)
  /\ newIdleBodyLayer

MouthCall ==
  /\ mouthSteps < MaxMouthCalls
  /\ mouthSteps' = mouthSteps + 1
  /\ UNCHANGED <<poseVars, pureVars, layerVars, idleVars>>

\* init(vrm)
mouthInit(rig) ==
  /\ MouthCall
  /\ mouth' = [mouth EXCEPT !.vrm = rig, !.currentValue = 0, !.velocity = 0,
                            !.peakValue = 0, !.peakDecay = 0]
  /\ mouthLast' = [op |-> "init", targetValue |-> 0, written |-> <<>>]

\* dispose()
mouthDispose ==
  /\ MouthCall
  /\ mouth' = [mouth EXCEPT !.vrm = <<>>, !.currentValue = 0, !.velocity = 0,
                            !.peakValue = 0]
  /\ mouthLast' = [op |-> "dispose", targetValue |-> 0, written |-> <<>>]

\* layer.enabled = enabled (AnimationController.setLayerEnabled)
mouthSetEnabled(enabled) ==
  /\ MouthCall
  /\ mouth' = [mouth EXCEPT !.enabled = enabled]
  /\ mouthLast' = [op |-> "setEnabled", targetValue |-> 0, written |-> <<>>]

\* Math.pow(x, 0.8) for 0 <= x <= 1, on a grid of 1/50: the largest y with
\* y^5 <= x^4
pow08(x) ==
  The({200 * (CHOOSE y \in 0..50 :
                /\ y * y * y * y * y <= 50 * u * u * u * u
                /\ \A z \in (y + 1)..50 : z * z * z * z * z > 50 * u * u * u * u) :
         u \in {Min(50, x \div 200)}})

\* Math.exp(-x) for x >= 0, as 1 / (1 + x + x^2/2 + ... + x^6/720)
expNeg(x) ==
  The({The({The({The({
         MulDiv(Scale, Scale,
                Scale + x + x2 \div 2 + x3 \div 6 + x4 \div 24 + x5 \div 120
                  + MulDiv(x5, x, Scale) \div 720) :
         x5 \in {MulDiv(x4, x, Scale)}}) :
         x4 \in {MulDiv(x3, x, Scale)}}) :
         x3 \in {MulDiv(x2, x, Scale)}}) :
         x2 \in {MulDiv(x, x, Scale)}})

easeInQuad(t) == Mul(t, t)
easeOutQuad(t) == Scale - Mul(Scale - t, Scale - t)

\* targetValue of update()
mouthTarget(config, amplitude, isPlaying) ==
  IF isPlaying /\ amplitude > config.threshold
  THEN The({Min(Mul(pow08(normalized), config.sensitivity), config.maxOpen) :
              normalized \in {MulDiv(amplitude - config.threshold, Scale,
                                     Scale - config.threshold)}})
  ELSE 0

\* peakValue and peakDecay after update()
mouthPeak(m, targetValue, isPlaying, amplitude, delta) ==
  LET attack == isPlaying /\ amplitude > m.config.threshold
                  /\ targetValue > m.peakValue
      peakValue == IF attack THEN targetValue ELSE m.peakValue
      peakDecay == (IF attack THEN 0 ELSE m.peakDecay) + delta * 30
  IN  [peakValue |-> Max(targetValue, Mul(peakValue, expNeg(peakDecay))),
       peakDecay |-> peakDecay]

\* the attack, release and following times of update() (a comparison with
\* NaN is false)
mouthSmoothTime(m, targetValue, isPlaying) ==
  IF m.currentValue # NaN /\ targetValue > m.currentValue
  THEN m.config.smoothing \div 2
  ELSE IF ~isPlaying THEN (m.config.smoothing * 3) \div 2
  ELSE m.config.smoothing

\* the easing update() puts on the smoothed value
mouthEased(v) ==
  IF v = NaN THEN NaN
  ELSE IF v < 5000 THEN easeOutQuad(v * 2) \div 2
  ELSE 5000 + easeInQuad((v - 5000) * 2) \div 2

\* applyMouthValue: Math.max(0, Math.min(1, value)), which leaves NaN as it
\* is; nothing is written without an expression manager
applyMouthValue(rig, value) ==
  IF rig # <<"avatar">> THEN <<>>
  ELSE IF value = NaN THEN <<NaN>>
  ELSE <<Max(0, Min(Scale, value))>>

\* update(delta, context)
mouthUpdate(delta, amplitude, isPlaying) ==
  /\ MouthCall
  /\ IF mouth.vrm = <<>> \/ ~mouth.enabled
     THEN /\ UNCHANGED mouth
          /\ mouthLast' = [op |-> "skipped", targetValue |-> 0, written |-> <<>>]
     ELSE \E targetValue \in {mouthTarget(mouth.config, amplitude, isPlaying)} :
          \E peak \in {mouthPeak(mouth, targetValue, isPlaying, amplitude, delta)} :
          \E damped \in {smoothDamp(mouth.currentValue, targetValue, mouth.velocity,
                                    mouthSmoothTime(mouth, targetValue, isPlaying),
                                    delta)} :
            /\ mouth' = [mouth EXCEPT !.currentValue = damped.value,
                                      !.velocity = damped.velocity,
                                      !.peakValue = peak.peakValue,
                                      !.peakDecay = peak.peakDecay]
            /\ mouthLast' = [op |-> "update", targetValue |-> targetValue,
                             amplitude |-> amplitude, isPlaying |-> isPlaying,
                             written |-> applyMouthValue(mouth.vrm,
                                                         mouthEased(damped.value))]

NextMouth ==
  \/ \E rig \in MouthRigs : mouthInit(rig)
  \/ mouthDispose
  \/ \E enabled \in BOOLEAN : mouthSetEnabled(enabled)
  \/ \E delta \in MouthDeltas, frame \in MouthFrames :
       mouthUpdate(delta, frame[1], frame[2])

SpecMouth == InitMouth /\ [][NextMouth]_vars

\* C20: in every SpeechMouthLayer.update the mouth-open target is 0 unless
\* isPlaying is true and the amplitude is strictly greater than the
\* threshold, in which case it is at most maxOpen; and the value written to
\* the expression channel is always within [0, 1].
C20_MouthTargetAndOutputBounded ==
  mouthLast.op = "update" =>
    /\ ~(mouthLast.isPlaying /\ mouthLast.amplitude > mouth.config.threshold) =>
         mouthLast.targetValue = 0
    /\ (mouthLast.isPlaying /\ mouthLast.amplitude > mouth.config.threshold) =>
         mouthLast.targetValue <= mouth.config.maxOpen
    /\ mouthLast.written # <<>> =>
         /\ mouthLast.written[1] # NaN
         /\ mouthLast.written[1] >= 0
         /\ mouthLast.written[1] <= Scale

\* the current rotation and the velocity of every bone state
currentAndVelocity(bs) ==
  [b \in DOMAIN bs |-> [current |-> bs[b].current, velocity |-> bs[b].velocity]]

\* C24: the velocity and the current rotation of a bone are changed only by
\* init, which snaps current to target with zero velocity, and by the
\* smoothing step of update, which moves each axis by smoothDamp from the
\* value and velocity the last call left; applyPose, playBodyGesture,
\* stopBodyGesture, setBodyMotion and setTransitionDuration leave the current
\* rotation and the velocity of every bone unchanged.
C24_VelocityPersists ==
  /\ [][(/\ steps' # steps
          /\ last'.op \in {"applyPose", "playBodyGesture", "stopBodyGesture",
                           "setBodyMotion", "setTransitionDuration"}) =>
           currentAndVelocity(boneStates') = currentAndVelocity(boneStates)]_vars
  /\ [][(steps' # steps /\ last'.op = "init") =>
           \A b \in DOMAIN boneStates' :
             /\ boneStates'[b].current = boneStates'[b].target
             /\ boneStates'[b].velocity = Zero3]_vars
  /\ [][(steps' # steps /\ last'.op = "update") =>
           /\ DOMAIN boneStates' = DOMAIN boneStates
           /\ \A b \in DOMAIN boneStates :
                IF vrm = <<>> \/ last'.threw
                THEN /\ boneStates'[b].current = boneStates[b].current
                     /\ boneStates'[b].velocity = boneStates[b].velocity
                ELSE \A i \in 1..3 :
                       \E damped \in {smoothDamp(boneStates[b].current[i],
                                                 boneStates'[b].target[i],
                                                 boneStates[b].velocity[i],
                                                 smoothTime,
                                                 elapsedTime' - elapsedTime)} :
                         /\ boneStates'[b].current[i] = damped.value
                         /\ boneStates'[b].velocity[i] = damped.velocity]_vars

\* applyPose has returned on a controller whose head is moving: the head is
\* neither at its target nor at rest
C24_Witness ==
  /\ last.op = "applyPose"
  /\ "head" \in DOMAIN boneStates
  /\ boneStates["head"].velocity # Zero3
  /\ boneStates["head"].current # boneStates["head"].target
  /\ \A i \in 1..3 : boneStates["head"].velocity[i] # NaN

\* C25: right after init(rig), from any prior state, every bone with a rig
\* binding has a bone state whose current and target are the rig's rotation
\* for that bone and whose velocity is zero, no pose transition is active,
\* the elapsed and motion times are 0 and the base pose is the default
\* relaxed pose.
C25_InitSnapsToRig ==
  last.op = "init" =>
    /\ DOMAIN boneStates = BONE_MAP \cap RigBones
    /\ \A b \in BONE_MAP \cap RigBones :
         /\ boneStates[b].current = rigRot[b]
         /\ boneStates[b].target = rigRot[b]
         /\ boneStates[b].velocity = Zero3
    /\ poseTransition = <<>>
    /\ elapsedTime = 0
    /\ motionTime = 0
    /\ basePose = DEFAULT_RELAXED_POSE

\* init has returned on a controller that had ticked before: the rig is in
\* the default relaxed pose, which is not the rotation it was built with
C25_Witness ==
  /\ last.op = "init"
  /\ steps > 2
  /\ \E b \in DOMAIN boneStates : boneStates[b].current # Zero3

\* C29: update(0) on an initialized controller leaves the current rotation
\* and the velocity of every bone unchanged and well defined, also for a
\* bone whose current rotation equals its target.
C29_ZeroDeltaKeepsBones ==
  [][(/\ steps' # steps
      /\ last'.op = "update"
      /\ vrm # <<>>
      /\ elapsedTime' = elapsedTime) =>
       /\ currentAndVelocity(boneStates') = currentAndVelocity(boneStates)
       /\ \A b \in DOMAIN boneStates' : \A i \in 1..3 :
            /\ boneStates'[b].current[i] # NaN
            /\ boneStates'[b].velocity[i] # NaN]_vars

\* C28: for every sequence of init, playBodyGesture, update, stopBodyGesture
\* and dispose, whenever update evaluates an active gesture the start time of
\* the gesture is not later than the elapsed time, so the progress is never
\* negative.
C28_GestureStartNotInFuture ==
  [][(/\ steps' # steps
      /\ last'.op = "update"
      /\ vrm # <<>>
      /\ gestureAnimation # <<>>) =>
       /\ gestureAnimation[1].startTime <= elapsedTime'
       /\ gestureProgress(elapsedTime' - gestureAnimation[1].startTime,
                          gestureAnimation[1].gesture.duration) >= 0]_vars

\* ------------------------------------------------------------------------
\* applyHandGesture(gesture)
\* ------------------------------------------------------------------------
FingerNames == {"thumb", "index", "middle", "ring", "pinky"}

\* A HandGesture: fingers maps the fingers listed to a curl in 1/Scale
HandGesture(id, hand, fingers) == [id |-> id, hand |-> hand, fingers |-> fingers]

Curls(thumb, index, middle, ring, pinky) ==
  [f \in FingerNames |->
     CASE f = "thumb" -> thumb [] f = "index" -> index [] f = "middle" -> middle
       [] f = "ring" -> ring [] f = "pinky" -> pinky]

\* HAND_GESTURES "open", "fist", "pointing" and "grab"
HandOpen == HandGesture("open", "both", Curls(0, 0, 0, 0, 0))
HandFist == HandGesture("fist", "both", Curls(Scale, Scale, Scale, Scale, Scale))
HandPointing == HandGesture("pointing", "right", Curls(5000, 0, Scale, Scale, Scale))
HandGrab == HandGesture("grab", "both", Curls(5000, 6000, 6000, 7000, 7000))

\* A gesture of the left hand that lists two fingers only (the type allows it)
HandLeftPinch ==
  HandGesture("leftPinch", "left", [f \in {"thumb", "index"} |-> 8000])

HandGestures == {HandOpen, HandFist, HandPointing, HandGrab, HandLeftPinch}

\* maxCurl, Math.PI / 2
maxCurl == Quot(PI, 2)

\* fingerBones[finger].bones for a side
fingerBones(side, finger) ==
  CASE finger = "thumb" ->
         <<side \o "ThumbMetacarpal", side \o "ThumbProximal", side \o "ThumbDistal">>
    [] finger = "index" ->
         <<side \o "IndexProximal", side \o "IndexIntermediate", side \o "IndexDistal">>
    [] finger = "middle" ->
         <<side \o "MiddleProximal", side \o "MiddleIntermediate", side \o "MiddleDistal">>
    [] finger = "ring" ->
         <<side \o "RingProximal", side \o "RingIntermediate", side \o "RingDistal">>
    [] finger = "pinky" ->
         <<side \o "LittleProximal", side \o "LittleIntermediate", side \o "LittleDistal">>

\* curlDistribution, in 1/Scale
curlDistribution(finger) ==
  IF finger = "thumb" THEN <<3000, 4000, 3000>> ELSE <<5000, 3500, 1500>>

\* curl * maxCurl * curlDistribution[i] * 2.5
jointCurl(finger, i, curl) ==
  Mul(Mul(Mul(curl, maxCurl), curlDistribution(finger)[i]), 25000)

\* side === "left" ? v : -v
mirrored(side, v) == IF side = "left" THEN v ELSE -v

\* A faulty joint rotation that bends the joint further from where it is
jointRotationAdding(old, side, finger, i, curl) ==
  LET c == jointCurl(finger, i, curl)
  IN  IF finger = "thumb"
      THEN (IF i = 1
            THEN Vec3(old[1], old[2] + mirrored(side, Mul(c, 5000)),
                      old[3] + mirrored(side, Mul(c, 3000)))
            ELSE Vec3(old[1], old[2], old[3] + mirrored(side, Mul(c, 8000))))
      ELSE Vec3(old[1] + c, old[2], old[3])

\* the rotation of joint i of a finger after the assignments of the loop
\* body; `old` is the rotation before, of which the axes not assigned stay
jointRotation(old, side, finger, i, curl) ==
  LET c == jointCurl(finger, i, curl)
  IN  IF finger = "thumb"
      THEN (IF i = 1
            THEN Vec3(old[1], mirrored(side, Mul(c, 5000)),
                      mirrored(side, Mul(c, 3000)))
            ELSE Vec3(old[1], old[2], mirrored(side, Mul(c, 8000))))
      ELSE Vec3(jointCurl(finger, i, curl), old[2], old[3])

\* applyFingerPose(side, fingers) on the rig rotations
applyFingerPose(rot, side, fingers) ==
  [b \in DOMAIN rot |->
     IF \E f \in DOMAIN fingers \cap FingerNames, i \in 1..3 :
          fingerBones(side, f)[i] = b
     THEN The({jointRotation(rot[b], side, h[1], h[2], fingers[h[1]]) :
                 h \in {k \in (DOMAIN fingers \cap FingerNames) \X (1..3) :
                          fingerBones(side, k[1])[k[2]] = b}})
     ELSE rot[b]]

\* A faulty selector that bends both hands whatever the gesture names
handSidesBoth(hand) == {"left", "right"}

\* the sides applyHandGesture applies the fingers to
handSides(hand) == IF hand = "both" THEN {"left", "right"} ELSE {hand}

\* the rig rotations applyHandGesture leaves: the left hand, then the right
applyFingerPoses(rot, gesture) ==
  LET sides == handSides(gesture.hand)
      left == IF "left" \in sides
              THEN applyFingerPose(rot, "left", gesture.fingers) ELSE rot
  IN  IF "right" \in sides
      THEN applyFingerPose(left, "right", gesture.fingers) ELSE left

applyHandGesture(gesture) ==
  /\ Call
  /\ last' = Obs("applyHandGesture", gesture.id)
  /\ rigRot' = IF hasHumanoid THEN applyFingerPoses(rigRot, gesture) ELSE rigRot
  /\ UNCHANGED <<vrm, basePose, boneStates, poseTransition, currentMotion,
                 gestureAnimation, motionTime, elapsedTime, currentPositionY,
                 positionVelocityY, transitionDuration>>

\* The controller driven with hand gestures between the calls of the body
\* pipeline
NextHands ==
  \/ init
  \/ dispose
  \/ applyPose(PoseThinking)
  \/ playBodyGesture(GestureNod)
  \/ setBodyMotion(MotionSwayRhythmic)
  \/ update(200)
  \/ \E gesture \in HandGestures : applyHandGesture(gesture)

SpecHands == Init /\ [][NextHands]_vars

\* the finger joints of one hand
handJoints(side) ==
  {fingerBones(side, f)[i] : f \in FingerNames, i \in 1..3}

\* the hand gesture of the table with the given id
handGestureById(id) == CHOOSE g \in HandGestures : g.id = id

\* C22: applyHandGesture assigns, for every finger the gesture lists and
\* every joint the rig has of each hand the gesture targets, a rotation that
\* depends on the finger's curl alone and not on the rotation the joint had:
\* curl 1 gives a non-zero x rotation (z for the thumb joints) and curl 0
\* gives 0, so the open gesture after any sequence of hand gestures leaves
\* every finger joint at zero, and a gesture applied twice in a row leaves
\* what it left the first time.
C22_CurlAloneSetsFingers ==
  /\ [][(steps' # steps /\ last'.op = "applyHandGesture" /\ vrm # <<>>) =>
         \A g \in {handGestureById(last'.arg)} :
         \A side \in handSides(g.hand), f \in DOMAIN g.fingers, i \in 1..3 :
         \A b \in {fingerBones(side, f)[i]} \cap DOMAIN rigRot :
         \A axis \in {IF f = "thumb" THEN 3 ELSE 1} :
            /\ rigRot'[b] = jointRotation(Zero3, side, f, i, g.fingers[f])
            /\ g.fingers[f] = Scale => rigRot'[b][axis] # 0
            /\ g.fingers[f] = 0 => rigRot'[b] = Zero3]_vars
  /\ [][(/\ steps' # steps /\ last'.op = "applyHandGesture" /\ vrm # <<>>
          /\ last'.arg = "open") =>
           \A b \in RigFingerJoints : rigRot'[b] = Zero3]_vars
  /\ [][(/\ steps' # steps /\ last'.op = "applyHandGesture" /\ vrm # <<>>
          /\ last.op = "applyHandGesture" /\ last.arg = last'.arg) =>
           rigRot' = rigRot]_vars

\* the open gesture has returned on a rig a grab had bent before: every
\* finger joint is back at zero
C22_Witness ==
  /\ last.op = "applyHandGesture"
  /\ last.arg = "open"
  /\ vrm # <<>>
  /\ steps >= 3
  /\ \A b \in RigFingerJoints : rigRot[b] = Zero3

\* C23: applyHandGesture leaves the current rotation, the target and the
\* velocity of every tracked bone, the base pose, the pose transition, the
\* gesture playback state and the body motion unchanged, and a gesture for
\* one hand leaves the finger joints of the other hand unchanged.
C23_HandsApartFromBody ==
  [][(steps' # steps /\ last'.op = "applyHandGesture") =>
       /\ UNCHANGED <<boneStates, basePose, poseTransition, gestureAnimation,
                      currentMotion>>
       /\ \A b \in RigBones : rigRot'[b] = rigRot[b]
       /\ \A side \in {"left", "right"} :
            handGestureById(last'.arg).hand \notin {side, "both"} =>
              \A b \in handJoints(side) \cap DOMAIN rigRot :
                rigRot'[b] = rigRot[b]]_vars

\* a gesture for the right hand has returned while a pose transition and a
\* body gesture are active and the left hand is bent
C23_Witness ==
  /\ last.op = "applyHandGesture"
  /\ last.arg = "pointing"
  /\ vrm # <<>>
  /\ poseTransition # <<>>
  /\ gestureAnimation # <<>>
  /\ rigRot["leftIndexProximal"] # Zero3
  /\ rigRot["rightIndexProximal"] = Zero3
  /\ rigRot["rightMiddleIntermediate"] # Zero3

\* ------------------------------------------------------------------------
\* The keyframe player on gestures whose keyframes list different bones
\* ------------------------------------------------------------------------
ShrugBones(x, z, withHead, headZ) ==
  [b \in {"leftUpperArm", "rightUpperArm"} \cup
          (IF withHead THEN {"head"} ELSE {}) |->
     CASE b = "leftUpperArm" -> Deg3(x, 0, -z)
       [] b = "rightUpperArm" -> Deg3(x, 0, z)
       [] b = "head" -> Deg3(0, 0, headZ)]

\* BODY_GESTURES "shrug": the first keyframe does not list the head
GestureShrug ==
  [id |-> "shrug", duration |-> 800, loop |-> FALSE,
   keyframes |-> <<Keyframe(0, ShrugBones(0, 45, FALSE, 0)),
                   Keyframe(3000, ShrugBones(-20, 60, TRUE, 5)),
                   Keyframe(7000, ShrugBones(-20, 60, TRUE, 5)),
                   Keyframe(Scale, ShrugBones(0, 45, TRUE, 0))>>]

CelebrateBones(x, y, z, withLower) ==
  [b \in {"leftUpperArm", "rightUpperArm"} \cup
          (IF withLower THEN {"leftLowerArm", "rightLowerArm"} ELSE {}) |->
     CASE b = "leftUpperArm" -> Deg3(x, y, -z)
       [] b = "rightUpperArm" -> Deg3(x, -y, z)
       [] b = "leftLowerArm" -> Deg3(0, 0, -30)
       [] b = "rightLowerArm" -> Deg3(0, 0, 30)]

\* BODY_GESTURES "celebrate": the last keyframe does not list the lower arms
GestureCelebrate ==
  [id |-> "celebrate", duration |-> 1000, loop |-> FALSE,
   keyframes |-> <<Keyframe(0, CelebrateBones(0, 0, 45, FALSE)),
                   Keyframe(4000, CelebrateBones(-60, 0, 150, TRUE)),
                   Keyframe(7000, CelebrateBones(-60, 10, 150, TRUE)),
                   Keyframe(Scale, CelebrateBones(0, 0, 45, FALSE))>>]

KeyframeGestures == {GestureNod, GestureClap, GestureShrug, GestureCelebrate}

NextKeyframes ==
  \/ init
  \/ \E gesture \in KeyframeGestures : playBodyGesture(gesture)
  \/ stopBodyGesture
  \/ \E delta \in Deltas : update(delta)

SpecKeyframes == Init /\ [][NextKeyframes]_vars

\* v lies between a and b
Between(a, v, b) == (a <= v /\ v <= b) \/ (b <= v /\ v <= a)

\* the progress updateGestureAnimation interpolates at in a tick that ends
\* at time `now`: a loop that has run out restarts at 0
playedProgress(ga, now) ==
  LET progress == gestureProgress(now - ga[1].startTime, ga[1].gesture.duration)
  IN  IF progress >= Scale THEN 0 ELSE progress

\* C27: in every tick where a playing gesture has its progress inside an
\* adjacent keyframe interval [time_i, time_(i+1)), that pair is the one
\* interpolated: the tick writes targets for exactly the tracked bones that
\* keyframe i+1 lists (a bone only keyframe i lists is not written), starts
\* from [0, 0, 0] for a bone keyframe i does not list, and every axis
\* written lies between the values of the two keyframes.
C27_BracketingPairInterpolated ==
  [][(/\ steps' # steps
      /\ last'.op = "update"
      /\ vrm # <<>>
      /\ gestureAnimation # <<>>
      /\ gestureAnimation' # <<>>) =>
       \A progress \in {playedProgress(gestureAnimation, elapsedTime')} :
       \A keyframes \in {gestureAnimation[1].gesture.keyframes} :
       \A i \in 1 .. Len(keyframes) - 1 :
         (keyframes[i].time <= progress /\ progress < keyframes[i + 1].time) =>
           /\ DOMAIN last'.gsWrites =
                DOMAIN keyframes[i + 1].bones \cap DOMAIN boneStates
           /\ \A b \in DOMAIN last'.gsWrites : \A axis \in 1..3 :
                \A from \in {IF b \in DOMAIN keyframes[i].bones
                              THEN keyframes[i].bones[b][axis] ELSE 0} :
                  /\ Between(degToRad(from), last'.gsWrites[b][axis],
                             degToRad(keyframes[i + 1].bones[b][axis]))
                  /\ progress = keyframes[i].time =>
                       last'.gsWrites[b][axis] = degToRad(from)]_vars

\* a tick has interpolated the first pair of the shrug at its start: the
\* head, which the first keyframe does not list, starts from zero and the
\* right upper arm from the first keyframe
C27_Witness ==
  /\ last.op = "update"
  /\ gestureAnimation # <<>>
  /\ gestureAnimation[1].gesture.id = "shrug"
  /\ elapsedTime = gestureAnimation[1].startTime
  /\ DOMAIN last.gsWrites = {"head", "rightUpperArm"}
  /\ last.gsWrites["head"] = Zero3
  /\ last.gsWrites["rightUpperArm"] = degToRad3(Deg3(0, 0, 45))

\* the target of bone b when it is back at the base pose: the base-pose
\* value, plus the offset of the motion if the motion wrote the bone
resumedTarget(base, moWrites, b) ==
  IF b \in DOMAIN moWrites THEN moWrites[b] ELSE degToRad3(OrZero(base, b))

\* C26: after a non-looping gesture has finished, with no new gesture and no
\* pose applied, the target of a bone the gesture wrote (the head, for the
\* nod) is back at its base-pose value, plus the offset of the current
\* motion if that drives the bone, in the tick that follows.
C26_BasePoseResumes ==
  [][(/\ steps' # steps
      /\ last.op = "update"
      /\ last.gestureEnded
      /\ last'.op = "update"
      /\ vrm # <<>>
      /\ poseTransition = <<>>) =>
       \A b \in {"head"} \cap DOMAIN boneStates :
         boneStates'[b].target = resumedTarget(basePose, last'.moWrites, b)]_vars

\* C30: when setBodyMotion has replaced the motion, with no gesture and no
\* transition active, the target of every bone the new motion does not
\* drive is at its base-pose value after the next tick.
C30_ReplacedMotionReleasesBones ==
  [][(/\ steps' # steps
      /\ last.op = "setBodyMotion"
      /\ last'.op = "update"
      /\ vrm # <<>>
      /\ gestureAnimation = <<>>
      /\ poseTransition = <<>>) =>
       \A b \in DOMAIN boneStates \ DOMAIN last'.moWrites :
         boneStates'[b].target = degToRad3(OrZero(basePose, b))]_vars

\* ------------------------------------------------------------------------
\* IdleBodyLayer
\* ------------------------------------------------------------------------
MaxIdleCalls == 5

\* update(delta): the frame times (ms); Math.random(): the least value, one
\* that schedules the blink 60 ms later and the greatest below 1 (1e-4)
IdleDeltas == {0, 60, 90, 2000}
IdleRandoms == {0, 150, 9999}

\* init(vrm): a VRM with an expression manager and one without
IdleRigs == {<<"avatar">>, <<"noExpressions">>}

IdleCall ==
  /\ idleSteps < MaxIdleCalls
  /\ idleSteps' = idleSteps + 1
  /\ UNCHANGED <<poseVars, pureVars, layerVars, mouthVars>>

\* A faulty schedule that counts from the start of the layer's clock
getNextBlinkTimeFromStart(elapsed, random) == 2000 + MulDiv(random, 4000, Scale)

\* this.elapsed + 2 + Math.random() * 4
getNextBlinkTime(elapsed, random) == elapsed + 2000 + MulDiv(random, 4000, Scale)

\* init(vrm)
idleInit(rig, random) ==
  /\ IdleCall
  /\ idle' = [idle EXCEPT !.vrm = rig, !.elapsed = 0,
                          !.nextBlinkTime = getNextBlinkTime(0, random),
                          !.blinkProgress = 0, !.isBlinking = FALSE]
  /\ idleLast' = IdleObs("init", 0, FALSE, FALSE, <<>>, 0)
  /\ UNCHANGED blinkChannel

\* dispose()
idleDispose ==
  /\ IdleCall
  /\ idle' = [idle EXCEPT !.vrm = <<>>, !.elapsed = 0]
  /\ idleLast' = IdleObs("dispose", 0, FALSE, FALSE, <<>>, idleLast.blinkDeltas)
  /\ UNCHANGED blinkChannel

\* layer.enabled = enabled (AnimationController.setLayerEnabled)
idleSetEnabled(enabled) ==
  /\ IdleCall
  /\ idle' = [idle EXCEPT !.enabled = enabled]
  /\ idleLast' = IdleObs("setEnabled", 0, FALSE, FALSE, <<>>, idleLast.blinkDeltas)
  /\ UNCHANGED blinkChannel

\* blinkDuration, 0.15 s, in ms
blinkDuration == 150

\* the weight of the blink at a progress: closing, then opening
blinkValue(blinkProgress) ==
  IF blinkProgress < 5000
  THEN easeInQuad(blinkProgress * 2)
  ELSE Scale - easeOutQuad((blinkProgress - 5000) * 2)

\* update(delta, context); random is what Math.random() returns if the tick
\* ends a blink
idleUpdate(delta, random) ==
  /\ IdleCall
  /\ IF idle.vrm = <<>> \/ ~idle.enabled
     THEN /\ UNCHANGED <<idle, blinkChannel>>
          /\ idleLast' = IdleObs("skipped", delta, FALSE, FALSE, <<>>,
                                 idleLast.blinkDeltas)
     ELSE \E elapsed \in {idle.elapsed + delta} :
          IF idle.vrm # <<"avatar">>
          THEN /\ idle' = [idle EXCEPT !.elapsed = elapsed]
               /\ idleLast' = IdleObs("update", delta, FALSE, FALSE, <<>>,
                                      idleLast.blinkDeltas)
               /\ UNCHANGED blinkChannel
          ELSE \E started \in {~idle.isBlinking /\ elapsed >= idle.nextBlinkTime} :
               IF ~(idle.isBlinking \/ started)
               THEN /\ idle' = [idle EXCEPT !.elapsed = elapsed]
                    /\ idleLast' = IdleObs("update", delta, FALSE, FALSE, <<>>,
                                           idleLast.blinkDeltas)
                    /\ UNCHANGED blinkChannel
               ELSE \E blinkProgress \in
                       {(IF started THEN 0 ELSE idle.blinkProgress)
                          + MulDiv(delta, Scale, blinkDuration)} :
                    \E ended \in {blinkProgress >= Scale} :
                    \E written \in {<<blinkValue(blinkProgress)>>
                                      \o (IF ended THEN <<0>> ELSE <<>>)} :
                      /\ idle' = [idle EXCEPT
                                    !.elapsed = elapsed,
                                    !.isBlinking = ~ended,
                                    !.blinkProgress = blinkProgress,
                                    !.nextBlinkTime =
                                      IF ended
                                      THEN getNextBlinkTime(elapsed, random)
                                      ELSE @]
                      /\ blinkChannel' = written[Len(written)]
                      /\ idleLast' =
                           IdleObs("update", delta, started, ended, written,
                                   (IF started THEN 0 ELSE idleLast.blinkDeltas)
                                     + delta)

NextIdle ==
  \/ \E rig \in IdleRigs, random \in IdleRandoms : idleInit(rig, random)
  \/ idleDispose
  \/ \E enabled \in BOOLEAN : idleSetEnabled(enabled)
  \/ \E delta \in IdleDeltas, random \in IdleRandoms : idleUpdate(delta, random)

SpecIdle == Init /\ [][NextIdle]_vars

\* C21: the blink of the idle layer is a two-state cycle.  A blink starts
\* only in a tick in which the elapsed time of the layer has reached the
\* scheduled next-blink time; a blink that has started is over after a tick
\* exactly when the deltas of its ticks add up to 150 ms or more; and the
\* tick that ends it writes 0 to the blink channel last and schedules the
\* next blink between 2 and 6 seconds after the elapsed time of that tick.
\* The layer leaves the blinking state in such a tick only, or by init.
C21_BlinkCycle ==
  [][idleSteps' # idleSteps =>
       /\ ((~idle.isBlinking /\ idle'.isBlinking) \/ idleLast'.started) =>
            /\ idleLast'.op = "update"
            /\ idle'.elapsed >= idle.nextBlinkTime
       /\ (idleLast'.op = "update" /\ (idle.isBlinking \/ idleLast'.started)) =>
            /\ idle'.isBlinking <=> idleLast'.blinkDeltas < 150
            /\ idleLast'.ended <=> ~idle'.isBlinking
       /\ idleLast'.ended =>
            /\ idleLast'.written[Len(idleLast'.written)] = 0
            /\ blinkChannel' = 0
            /\ idle'.nextBlinkTime >= idle'.elapsed + 2000
            /\ idle'.nextBlinkTime <= idle'.elapsed + 6000
       /\ (idle.isBlinking /\ ~idle'.isBlinking) =>
            idleLast'.ended \/ idleLast'.op = "init"]_vars

\* a blink that started in an earlier tick has ended in the tick in which
\* its deltas reached 150 ms
C21_Witness ==
  /\ idleLast.op = "update"
  /\ idleLast.ended
  /\ ~idleLast.started
  /\ idleLast.blinkDeltas = 150
  /\ blinkChannel = 0
  /\ idle.elapsed > 2000
  /\ idle.nextBlinkTime > idle.elapsed + 2000

====
